---- MODULE Spec2Model ----
(***************************************************************************)
(* The aggregation orchestrator of bbc-frontend: class Downloader of       *)
(* src/src/lib/dock.ts, driven by the download page of                     *)
(* src/src/components/SearchPage.svelte, talking to the catalog client     *)
(* BBC_API of src/unnamed/part_000.                                        *)
(*                                                                         *)
(* JavaScript runs one handler at a time.  An async method runs up to its  *)
(* first await in the step that calls it, and each later stretch between   *)
(* two awaits is one step, taken when the awaited network call settles.    *)
(* Every other handler can run between two such steps.                     *)
(***************************************************************************)
EXTENDS Integers, Sequences, FiniteSets, TLC

----------------------------------------------------------------------------
(* Bounds of the model *)

\* Pages the catalog service holds for a query (the "pages" field it reports).
MaxPage == 2
\* A direct fetchBooks() call is taken only while fetchedPages is shorter.
MaxFetched == 2
\* A direct fetchSeries() call is taken only while allSeries is shorter.
MaxSeries == 1
\* A book is added to the selection only while the selection is shorter.
MaxSelected == 4

(* Program constants *)

MAX_SELECTED_SERIES == 10

----------------------------------------------------------------------------
(* The environment: providers, the URL of the page, the catalog *)

\* allProviders, in the order of the list (the order initialize iterates in).
ProviderIds == <<"a", "b">>

ProviderSet == {ProviderIds[i] : i \in DOMAIN ProviderIds}

\* Provider.supportsBookPages
SupportsBookPages(p) == p = "b"

\* Provider.ignoreErrors
IgnoreErrors(p) == p = "b"

NoIds == [p \in ProviderSet |-> 0]

\* The series(<provider>) and book(<provider>) search parameters of the page
\* URL, as numbers of ids per provider.  They do not change while the page is
\* open.  The cases: no id; one provider; two providers with series and book
\* ids, exactly at the ceiling; two providers, one id above the ceiling.
AtCeiling == [series |-> [p \in ProviderSet |-> 4], books |-> [NoIds EXCEPT !["b"] = 2]]

UrlInputs ==
    { [series |-> NoIds, books |-> NoIds],
      [series |-> [NoIds EXCEPT !["a"] = 1], books |-> NoIds],
      AtCeiling,
      [series |-> [p \in ProviderSet |-> 5], books |-> [NoIds EXCEPT !["a"] = 1]] }

\* The book the catalog holds for a provider on a page of a query: one volume
\* per page, volume g on page g in ascending order and on page MaxPage+1-g in
\* descending order.  Both providers carry the same volumes.
CatalogBooks(p, sort, g) ==
    IF g \in 1..MaxPage
    THEN << [id |-> (IF sort = "asc" THEN g ELSE MaxPage + 1 - g), provider |-> p] >>
    ELSE << >>

\* Image metadata (wsrv getInfo) turned into the quality score of a cover:
\* provider "a" serves png 1000x1000 (score 34), "b" jpeg 1000x1000 4:2:0 (30),
\* except that "b" has the better scan of the odd volumes (png 2000x2000, 59).
CoverQualityScore(b) ==
    IF b.provider = "a" THEN 34 ELSE IF b.id % 2 = 1 THEN 59 ELSE 30

----------------------------------------------------------------------------
(* State *)

VARIABLES
    searchParams,                 \* the ids in the page URL
    mounted,                      \* onMount has called initialize
    loading,                      \* appState.loading
    reported,                     \* errors passed to addAppError in the last step
    isFetching,
    allSeriesIds,
    allBookIds,
    sortOrder,
    automaticCoverQualityEnabled,
    page,
    maxPage,
    incrementPages,
    fetchedPages,
    allBooks,
    allSeries,
    selectedBooks,
    lastToggledBook,
    providers,
    selectedProviders,
    allBookPages,
    selectedBookPage,
    tasks,                        \* the fetch cycles in flight, each at an await
    call,                         \* the catalog client call in progress
    cover                         \* a book whose cover is measured and cropped

vars == << searchParams, mounted, loading, reported, isFetching, allSeriesIds,
           allBookIds, sortOrder, automaticCoverQualityEnabled, page, maxPage,
           incrementPages, fetchedPages, allBooks, allSeries, selectedBooks,
           lastToggledBook, providers, selectedProviders, allBookPages,
           selectedBookPage, tasks, call, cover >>

\* No catalog client call in progress, no book under measurement
NoCall == [op |-> "none"]

NoCover == [id |-> 0]

\* lastToggledBook before any toggle (undefined)
NoBook == [id |-> 0, provider |-> "", coverQualityScore |-> 0]

----------------------------------------------------------------------------
(* Helpers on sequences *)

Range(s) == {s[i] : i \in DOMAIN s}

\* (variant: the later value replaces the earlier)
Max_Last(a, b) == b

Max(a, b) == IF a >= b THEN a ELSE b

Contains(s, x) == \E i \in DOMAIN s : s[i] = x

RemoveAt(s, i) == SubSeq(s, 1, i - 1) \o SubSeq(s, i + 1, Len(s))

\* Array.prototype.filter with a predicate given as a set of kept indices
RECURSIVE KeepIndices(_, _, _)
KeepIndices(s, keep, i) ==
    IF i > Len(s) THEN << >>
    ELSE (IF i \in keep THEN << s[i] >> ELSE << >>) \o KeepIndices(s, keep, i + 1)

\* Array.prototype.findIndex on (id, provider id); 0 stands for -1
FindIndex(s, b) ==
    IF \E i \in DOMAIN s : s[i].id = b.id /\ s[i].provider = b.provider
    THEN CHOOSE i \in DOMAIN s :
            /\ s[i].id = b.id /\ s[i].provider = b.provider
            /\ \A j \in 1..(i - 1) : ~(s[j].id = b.id /\ s[j].provider = b.provider)
    ELSE 0

RECURSIVE SumOver(_, _)
SumOver(f, S) ==
    IF S = {} THEN 0
    ELSE LET x == CHOOSE y \in S : TRUE IN f[x] + SumOver(f, S \ {x})

\* Object.keys(store): the providers with an entry
Keys(store) == {p \in ProviderSet : store[p] > 0}

\* countIds of initialize
CountIds(store) == SumOver(store, ProviderSet)

TotalIds == CountIds(allSeriesIds) + CountIds(allBookIds)

----------------------------------------------------------------------------
(* Derived views of the Downloader *)

\* (variant: the last known page counts as having a next page)
isNextPage_Inclusive == page <= maxPage

isNextPage == page < maxPage

\* parseVolumeName of a catalog title: "Volume <id>" for every provider
VolumeName(b) == b.id

ProviderIndex(p) ==
    IF \E i \in DOMAIN providers : providers[i] = p
    THEN (CHOOSE i \in DOMAIN providers :
            providers[i] = p /\ \A j \in 1..(i - 1) : providers[j] # p) - 1
    ELSE -1

\* (variant: the sort puts the lower quality score first)
CompareCovers_LowestFirst(a, b) ==
    IF a.coverQualityScore # b.coverQualityScore
    THEN a.coverQualityScore - b.coverQualityScore
    ELSE ProviderIndex(a.provider) - ProviderIndex(b.provider)

\* The comparator of automaticallyPickCovers: negative when a sorts first
CompareCovers(a, b) ==
    IF selectedBookPage > 0 /\ SupportsBookPages(a.provider) /\ ~SupportsBookPages(b.provider)
    THEN -1
    ELSE IF selectedBookPage > 0 /\ ~SupportsBookPages(a.provider) /\ SupportsBookPages(b.provider)
    THEN 1
    ELSE IF a.coverQualityScore # b.coverQualityScore
    THEN b.coverQualityScore - a.coverQualityScore
    ELSE ProviderIndex(a.provider) - ProviderIndex(b.provider)

\* booksByVolume.get(v): the indices of the books of volume v, in the order
\* of books
VolumeBooks(books, v) ==
    SelectSeq([k \in DOMAIN books |-> k], LAMBDA k : VolumeName(books[k]) = v)

\* volumeBooks.sort(comparator): Array.prototype.sort is stable
RECURSIVE InsertCover(_, _, _)
InsertCover(books, s, x) ==
    IF s = << >> THEN << x >>
    ELSE IF CompareCovers(books[x], books[Head(s)]) < 0 THEN << x >> \o s
    ELSE << Head(s) >> \o InsertCover(books, Tail(s), x)

RECURSIVE SortCovers(_, _)
SortCovers(books, s) ==
    IF s = << >> THEN << >>
    ELSE InsertCover(books, SortCovers(books, SubSeq(s, 1, Len(s) - 1)), s[Len(s)])

\* (variant: every book that sorts as the first of its group does is kept)
PickedIndices_Ties(books) ==
    { i \in DOMAIN books :
        LET first == SortCovers(books, VolumeBooks(books, VolumeName(books[i])))[1]
        IN  CompareCovers(books[i], books[first]) = 0 }

\* booksToKeep of automaticallyPickCovers, as indices: of every volume group
\* the book the sort puts first.
PickedIndices(books) ==
    { SortCovers(books, VolumeBooks(books, v))[1] :
        v \in {VolumeName(books[k]) : k \in DOMAIN books} }

automaticallyPickCovers(books) == KeepIndices(books, PickedIndices(books), 1)

filteredBooks ==
    IF automaticCoverQualityEnabled THEN automaticallyPickCovers(allBooks) ELSE allBooks

\* sortBookNaturally with the sort-by setting "volume": negative when a sorts first
sortBookNaturally(a, b) ==
    IF sortOrder = "asc" THEN VolumeName(a) - VolumeName(b)
    ELSE VolumeName(b) - VolumeName(a)

\* Array.prototype.sort (stable) with sortBookNaturally
RECURSIVE InsertSorted(_, _)
InsertSorted(s, x) ==
    IF s = << >> THEN << x >>
    ELSE IF sortBookNaturally(x, Head(s)) < 0 THEN << x >> \o s
    ELSE << Head(s) >> \o InsertSorted(Tail(s), x)

RECURSIVE SortBooks(_)
SortBooks(s) ==
    IF s = << >> THEN << >>
    ELSE InsertSorted(SortBooks(SubSeq(s, 1, Len(s) - 1)), s[Len(s)])

sortedFilteredBooks == SortBooks(filteredBooks)

isAllSelected == Len(filteredBooks) = Len(selectedBooks)

maxBookPage ==
    IF allBookPages = << >> THEN 0
    ELSE CHOOSE n \in {allBookPages[i].number : i \in DOMAIN allBookPages} \cup {0} :
            \A i \in DOMAIN allBookPages : allBookPages[i].number <= n

canChangeBookPage ==
    (\E i \in DOMAIN selectedProviders : SupportsBookPages(selectedProviders[i]))
    /\ maxBookPage > 0

----------------------------------------------------------------------------
(* The catalog client *)

\* BBC_API.getBooks: one request per id of every provider; ok is the set of
\* providers whose requests succeeded.  Every requested provider gets a data
\* entry, every failed request one error, pages is the largest page count of a
\* successful request.
GetBooks(seriesIds, bookIds, sort, g, ok) ==
    LET requested == Keys(seriesIds) \cup Keys(bookIds)
        data == [p \in requested |->
                    IF p \in ok THEN CatalogBooks(p, sort, g) ELSE << >>]
        lens == [p \in ProviderSet |-> IF p \in requested THEN Len(data[p]) ELSE 0]
        failed == [p \in ProviderSet |->
                    IF p \in requested \ ok THEN seriesIds[p] + bookIds[p] ELSE 0]
    IN  [ data   |-> data,
          count  |-> SumOver(lens, ProviderSet),
          pages  |-> IF requested \cap ok = {} THEN 0 ELSE MaxPage,
          errors |-> SumOver(failed, ProviderSet) ]

\* The pages the catalog holds for a book
CatalogPages(b) == << [number |-> 1, bookId |-> b.id] >>

RECURSIVE PagesOfBooks(_)
PagesOfBooks(bs) ==
    IF bs = << >> THEN << >> ELSE CatalogPages(Head(bs)) \o PagesOfBooks(Tail(bs))

\* BBC_API.getBookPages for the books of one provider (fewer than a chunk of
\* 12): no request and no data entry for an empty list; else one request,
\* whose failure leaves an empty entry and one error.
GetBookPages(p, bs, ok) ==
    IF bs = << >> THEN [ data |-> << >>, hasEntry |-> FALSE, errors |-> 0 ]
    ELSE IF ok THEN [ data |-> PagesOfBooks(bs), hasEntry |-> TRUE, errors |-> 0 ]
    ELSE [ data |-> << >>, hasEntry |-> TRUE, errors |-> 1 ]

----------------------------------------------------------------------------
(* Fetch cycles *)

\* A fetchBooks cycle suspended at its first await, of getBooks for page g
BooksTask(g, rest, sort, caller) ==
    [ kind |-> "books", pc |-> "getBooks", caller |-> caller,
      cur |-> g, rest |-> rest, sort |-> sort,
      ok |-> {}, newBooks |-> << >>, wait |-> "", todo |-> << >>,
      stale |-> FALSE, dirty |-> FALSE ]

\* A fetchSeries cycle suspended at its await of getSeries
SeriesTask(caller) ==
    [ kind |-> "series", pc |-> "getSeries", caller |-> caller,
      cur |-> 0, rest |-> << >>, sort |-> "",
      ok |-> {}, newBooks |-> << >>, wait |-> "", todo |-> << >>,
      stale |-> FALSE, dirty |-> FALSE ]

\* A resetAll ran while the cycles were in flight: every request in flight was
\* issued before it.
MarkReset(ts) == [i \in DOMAIN ts |-> [ts[i] EXCEPT !.stale = TRUE, !.dirty = TRUE]]

\* Another operation changed the paging while the cycles were in flight.
MarkDirty(ts) == [i \in DOMAIN ts |-> [ts[i] EXCEPT !.dirty = TRUE]]

\* (variant: no re-entrancy guard)
Dropped_NoGuard(fetching) == FALSE

\* The re-entrancy guard of fetchBooks and fetchSeries
Dropped(fetching) == fetching

\* (variant: the current page only, in either mode)
PagesToFetch_CurrentOnly(inc, pg, fp) == << pg >>

\* pagesToFetch of fetchBooks
PagesToFetch(inc, pg, fp) ==
    IF inc THEN SelectSeq([i \in 1..pg |-> i], LAMBDA g : ~Contains(fp, g))
    ELSE << pg >>

\* fetchBooks() up to its first await, called with the fields as the caller
\* left them: what it makes of isFetching, fetchedPages and the cycles in
\* flight, and whether the caller now waits for a cycle.
FetchBooksCall(fetching, fp, pg, inc, sort, ts, caller) ==
    LET pagesToFetch == PagesToFetch(inc, pg, fp)
        same == [ isFetching |-> fetching, fetchedPages |-> fp, tasks |-> ts,
                  awaited |-> FALSE ]
    IN  IF Dropped(fetching) THEN same
        ELSE IF Keys(allSeriesIds) = {} /\ Keys(allBookIds) = {}
        THEN [same EXCEPT !.isFetching = FALSE]
        ELSE IF pagesToFetch = << >>
        THEN [same EXCEPT !.isFetching = FALSE]
        ELSE [ isFetching   |-> TRUE,
               fetchedPages |-> Append(fp, Head(pagesToFetch)),
               tasks        |-> Append(ts, BooksTask(Head(pagesToFetch),
                                                     Tail(pagesToFetch), sort, caller)),
               awaited      |-> TRUE ]

\* The callers that set appState.loading to false once their await returns:
\* resetAll, for itself or for changePage or toggleSortOrder, and onMount after
\* initialize
ClearsLoading(caller) ==
    caller \in {"initialize", "resetAll", "changePage", "toggleSortOrder"}

\* (variant: the cycle ends without clearing isFetching)
EndCycle_StaysFetching(i) ==
    /\ tasks' = RemoveAt(tasks, i)
    /\ isFetching' = isFetching
    /\ loading' = IF ClearsLoading(tasks[i].caller) THEN FALSE ELSE loading

\* The end of fetchBooks: isFetching = false, and the caller goes on.
EndCycle(i) ==
    /\ tasks' = RemoveAt(tasks, i)
    /\ isFetching' = FALSE
    /\ loading' = IF ClearsLoading(tasks[i].caller) THEN FALSE ELSE loading

\* The end of the loop body for one page: the next page of pagesToFetch is
\* recorded and requested, or the cycle ends.
LoopNext(i) ==
    LET t == tasks[i] IN
    IF t.rest = << >>
    THEN EndCycle(i) /\ fetchedPages' = fetchedPages
    ELSE /\ fetchedPages' = Append(fetchedPages, Head(t.rest))
         /\ tasks' = [tasks EXCEPT ![i] =
                [BooksTask(Head(t.rest), Tail(t.rest), sortOrder, t.caller)
                    EXCEPT !.dirty = t.dirty]]
         /\ UNCHANGED << isFetching, loading >>

\* newBooks of one provider: the response's books decorated
RECURSIVE Decorate(_)
Decorate(bs) ==
    IF bs = << >> THEN << >>
    ELSE << [id |-> Head(bs).id, provider |-> Head(bs).provider,
             coverQualityScore |-> 0] >> \o Decorate(Tail(bs))

\* The loop over selectedProviders, from the providers ps on: it runs up to the
\* await of getBookPages of the first provider that supports book pages.
RECURSIVE RunProviders(_, _, _)
RunProviders(data, nb, ps) ==
    IF ps = << >> THEN [ newBooks |-> nb, wait |-> "", todo |-> << >> ]
    ELSE LET p == Head(ps)
             nb2 == nb \o (IF p \in DOMAIN data THEN Decorate(data[p]) ELSE << >>)
         IN  IF SupportsBookPages(p)
             THEN [ newBooks |-> nb2, wait |-> p, todo |-> Tail(ps) ]
             ELSE RunProviders(data, nb2, Tail(ps))

\* The cycle i after the provider loop ran from ps on
AfterProviders(i, data, ok, nb, ps) ==
    LET run == RunProviders(data, nb, ps) IN
    tasks' = [tasks EXCEPT ![i] =
                [@ EXCEPT !.pc = IF run.wait # "" THEN "getBookPages" ELSE "getInfo",
                          !.ok = ok, !.newBooks = run.newBooks,
                          !.wait = run.wait, !.todo = run.todo]]

----------------------------------------------------------------------------
(* Initial state: a Downloader as constructed, with the fields onMount sets *)
(* from the URL before it calls initialize                                  *)

DockInit(urls) ==
    /\ searchParams \in urls
    /\ mounted = FALSE
    /\ loading = TRUE
    /\ reported = 0
    /\ isFetching = FALSE
    /\ allSeriesIds = NoIds
    /\ allBookIds = NoIds
    /\ sortOrder \in {"asc", "desc"}
    /\ automaticCoverQualityEnabled = TRUE
    /\ page \in 1..MaxPage
    /\ maxPage = 1
    /\ incrementPages \in BOOLEAN
    /\ fetchedPages = << >>
    /\ allBooks = << >>
    /\ allSeries = << >>
    /\ selectedBooks = << >>
    /\ lastToggledBook = NoBook
    /\ providers = << >>
    /\ selectedProviders = << >>
    /\ allBookPages = << >>
    /\ selectedBookPage = 0
    /\ tasks = << >>

InitWith(urls) ==
    /\ DockInit(urls)
    /\ call = NoCall
    /\ cover = NoCover

Init == InitWith(UrlInputs)

----------------------------------------------------------------------------
(* initialize and fetchSeries *)

\* The providers initialize keeps: those with a series or a book id in the URL
WithIds(sp) ==
    SelectSeq(ProviderIds, LAMBDA p : sp.series[p] > 0 \/ sp.books[p] > 0)

\* (variant: the ceiling itself is refused)
OverCeiling_Inclusive(total) == total >= MAX_SELECTED_SERIES

\* The ceiling check of initialize
OverCeiling(total) == total > MAX_SELECTED_SERIES

\* initialize(), called once, by onMount
Initialize ==
    /\ ~mounted
    /\ mounted' = TRUE
    /\ providers' = WithIds(searchParams)
    /\ selectedProviders' = WithIds(searchParams)
    /\ allSeriesIds' = searchParams.series
    /\ allBookIds' = searchParams.books
    /\ IF OverCeiling(CountIds(searchParams.series) + CountIds(searchParams.books))
       THEN /\ reported' = 1
            /\ loading' = FALSE
            /\ UNCHANGED << isFetching, tasks >>
       ELSE IF WithIds(searchParams) # << >> /\ ~Dropped(isFetching)
       THEN /\ reported' = 0
            /\ isFetching' = TRUE
            /\ tasks' = Append(tasks, SeriesTask("initialize"))
            /\ UNCHANGED loading
       ELSE /\ reported' = 0
            /\ loading' = FALSE
            /\ UNCHANGED << isFetching, tasks >>
    /\ UNCHANGED << call, cover, searchParams, sortOrder, automaticCoverQualityEnabled, page,
                    maxPage, incrementPages, fetchedPages, allBooks, allSeries,
                    selectedBooks, lastToggledBook, allBookPages, selectedBookPage >>

\* allIds of fetchSeries: the series ids of a provider hide its book ids
SeriesIdsOf(p) == IF allSeriesIds[p] > 0 THEN allSeriesIds[p] ELSE allBookIds[p]

\* The series the catalog returns for the providers in ok, decorated
RECURSIVE SeriesOf(_, _)
SeriesOf(ps, ok) ==
    IF ps = << >> THEN << >>
    ELSE (IF Head(ps) \in ok
          THEN [k \in 1..SeriesIdsOf(Head(ps)) |-> [id |-> k, provider |-> Head(ps)]]
          ELSE << >>) \o SeriesOf(Tail(ps), ok)

\* fetchSeries(), called directly
FetchSeries ==
    /\ mounted
    /\ Len(allSeries) < MaxSeries
    /\ IF Dropped(isFetching)
       THEN UNCHANGED << isFetching, tasks >>
       ELSE /\ isFetching' = TRUE
            /\ tasks' = Append(tasks, SeriesTask("fetchSeries"))
    /\ reported' = IF Dropped(isFetching) THEN reported ELSE 0
    /\ UNCHANGED << call, cover, searchParams, mounted, loading, allSeriesIds, allBookIds,
                    sortOrder, automaticCoverQualityEnabled, page, maxPage,
                    incrementPages, fetchedPages, allBooks, allSeries,
                    selectedBooks, lastToggledBook, providers, selectedProviders,
                    allBookPages, selectedBookPage >>

\* getSeries settles: the rest of fetchSeries; initialize then goes on to
\* fetchBooks in the same turn.
SeriesResponse(i, ok) ==
    /\ i \in DOMAIN tasks
    /\ tasks[i].pc = "getSeries"
    /\ ok \subseteq Range(providers)
    /\ allSeries' = allSeries \o SeriesOf(providers, ok)
    /\ reported' = Cardinality(Range(providers) \ ok)
    /\ IF tasks[i].caller = "initialize"
       THEN LET f == FetchBooksCall(FALSE, fetchedPages, page, incrementPages,
                                    sortOrder, RemoveAt(tasks, i), "initialize")
            IN  /\ isFetching' = f.isFetching
                /\ fetchedPages' = f.fetchedPages
                /\ tasks' = f.tasks
                /\ loading' = IF f.awaited THEN loading ELSE FALSE
       ELSE /\ isFetching' = FALSE
            /\ tasks' = RemoveAt(tasks, i)
            /\ UNCHANGED << fetchedPages, loading >>
    /\ UNCHANGED << call, cover, searchParams, mounted, allSeriesIds, allBookIds, sortOrder,
                    automaticCoverQualityEnabled, page, maxPage, incrementPages,
                    allBooks, selectedBooks, lastToggledBook, providers,
                    selectedProviders, allBookPages, selectedBookPage >>

----------------------------------------------------------------------------
(* fetchBooks *)

\* fetchBooks(), called directly
FetchBooks ==
    /\ mounted
    /\ Len(fetchedPages) < MaxFetched
    /\ LET f == FetchBooksCall(isFetching, fetchedPages, page, incrementPages,
                               sortOrder, tasks, "fetchBooks")
       IN  /\ isFetching' = f.isFetching
           /\ fetchedPages' = f.fetchedPages
           /\ tasks' = f.tasks
    /\ reported' = IF Dropped(isFetching) THEN reported ELSE 0
    /\ UNCHANGED << call, cover, searchParams, mounted, loading, allSeriesIds, allBookIds,
                    sortOrder, automaticCoverQualityEnabled, page, maxPage,
                    incrementPages, allBooks, allSeries, selectedBooks,
                    lastToggledBook, providers, selectedProviders, allBookPages,
                    selectedBookPage >>

\* getBooks settles for the page of cycle i: the providers in ok answered;
\* throws says that building a thumbnail URL throws, which ends the cycle in
\* its catch.
BooksResponse(i, ok, throws) ==
    /\ i \in DOMAIN tasks
    /\ tasks[i].pc = "getBooks"
    /\ ok \subseteq Keys(allSeriesIds) \cup Keys(allBookIds)
    /\ LET t == tasks[i]
           r == GetBooks(allSeriesIds, allBookIds, t.sort, t.cur, ok)
           mapped == \E k \in DOMAIN selectedProviders :
                        /\ selectedProviders[k] \in DOMAIN r.data
                        /\ r.data[selectedProviders[k]] # << >>
       IN  /\ throws => (r.count > 0 /\ mapped)
           /\ maxPage' = Max(maxPage, r.pages)
           /\ reported' = r.errors + (IF throws THEN 1 ELSE 0)
           /\ IF r.count > 0
              THEN IF throws
                   THEN EndCycle(i) /\ UNCHANGED fetchedPages
                   ELSE /\ AfterProviders(i, r.data, ok, << >>, selectedProviders)
                        /\ UNCHANGED << isFetching, loading, fetchedPages >>
              ELSE LoopNext(i)
    /\ UNCHANGED << call, cover, searchParams, mounted, allSeriesIds, allBookIds, sortOrder,
                    automaticCoverQualityEnabled, page, incrementPages, allBooks,
                    allSeries, selectedBooks, lastToggledBook, providers,
                    selectedProviders, allBookPages, selectedBookPage >>

\* The book pages of one provider, decorated
RECURSIVE DecoratePages(_, _)
DecoratePages(ps, p) ==
    IF ps = << >> THEN << >>
    ELSE << [number |-> Head(ps).number, bookId |-> Head(ps).bookId, provider |-> p] >>
            \o DecoratePages(Tail(ps), p)

\* getBookPages settles for the provider cycle i waits for.  Without a data
\* entry the push throws into the inner catch.
BookPagesResponse(i, ok) ==
    /\ i \in DOMAIN tasks
    /\ tasks[i].pc = "getBookPages"
    /\ LET t == tasks[i]
           p == t.wait
           mine == SelectSeq(t.newBooks, LAMBDA b : b.provider = p)
           r == GetBookPages(p, mine, ok)
           data == GetBooks(allSeriesIds, allBookIds, t.sort, t.cur, t.ok).data
       IN  /\ (mine = << >>) => ok
           /\ reported' = IF IgnoreErrors(p) THEN 0
                          ELSE IF r.hasEntry THEN r.errors ELSE 1
           /\ allBookPages' = allBookPages \o DecoratePages(r.data, p)
           /\ AfterProviders(i, data, t.ok, t.newBooks, t.todo)
    /\ UNCHANGED << call, cover, searchParams, mounted, loading, isFetching, allSeriesIds,
                    allBookIds, sortOrder, automaticCoverQualityEnabled, page,
                    maxPage, incrementPages, fetchedPages, allBooks, allSeries,
                    selectedBooks, lastToggledBook, providers, selectedProviders,
                    selectedBookPage >>

\* newBooks with the image metadata and the quality score of the covers
\* whose getInfo succeeded; the books at the indices in failed stay unmeasured
WithInfo(bs, failed) ==
    [k \in DOMAIN bs |->
        IF k \in failed THEN bs[k]
        ELSE [bs[k] EXCEPT !.coverQualityScore = CoverQualityScore(bs[k])]]

\* The books the filter after getInfo keeps: those of a provider without
\* ignoreErrors, and those that were measured
Measured(bs, failed) ==
    {k \in DOMAIN bs : ~IgnoreErrors(bs[k].provider) \/ k \notin failed}

\* The errors the failed getInfo calls report
InfoErrors(bs, failed) ==
    Cardinality({k \in failed : ~IgnoreErrors(bs[k].provider)})

\* Every getInfo of cycle i settled, those of the books at the indices in
\* failed with an error: the books of the page join allBooks and the loop
\* goes on.
InfoResponse(i, failed) ==
    /\ i \in DOMAIN tasks
    /\ tasks[i].pc = "getInfo"
    /\ failed \subseteq DOMAIN tasks[i].newBooks
    /\ allBooks' = allBooks \o KeepIndices(WithInfo(tasks[i].newBooks, failed),
                                          Measured(tasks[i].newBooks, failed), 1)
    /\ reported' = InfoErrors(tasks[i].newBooks, failed)
    /\ LoopNext(i)
    /\ UNCHANGED << call, cover, searchParams, mounted, allSeriesIds, allBookIds, sortOrder,
                    automaticCoverQualityEnabled, page, maxPage, incrementPages,
                    allSeries, selectedBooks, lastToggledBook, providers,
                    selectedProviders, allBookPages, selectedBookPage >>

----------------------------------------------------------------------------
(* resetAll, changePage, incrementPage, toggleSortOrder *)

\* (variant: resetAll keeps the selection)
ResetAllCall_KeepsSelection(pg, inc, sort, caller) ==
    LET f == FetchBooksCall(isFetching, << >>, pg, inc, sort, MarkReset(tasks),
                            caller)
    IN  /\ allBooks' = << >>
        /\ selectedBooks' = selectedBooks
        /\ allBookPages' = << >>
        /\ fetchedPages' = f.fetchedPages
        /\ isFetching' = f.isFetching
        /\ tasks' = f.tasks
        /\ loading' = f.awaited
        /\ reported' = 0

\* resetAll() with the page, mode and sort order its caller has just set
ResetAllCall(pg, inc, sort, caller) ==
    LET f == FetchBooksCall(isFetching, << >>, pg, inc, sort, MarkReset(tasks),
                            caller)
    IN  /\ allBooks' = << >>
        /\ selectedBooks' = << >>
        /\ allBookPages' = << >>
        /\ fetchedPages' = f.fetchedPages
        /\ isFetching' = f.isFetching
        /\ tasks' = f.tasks
        /\ loading' = f.awaited
        /\ reported' = 0

\* resetAll(), as the provider selector and the preview-page select of the
\* download page call it
ResetAll ==
    /\ mounted
    /\ ResetAllCall(page, incrementPages, sortOrder, "resetAll")
    /\ UNCHANGED << call, cover, searchParams, mounted, allSeriesIds, allBookIds, sortOrder,
                    automaticCoverQualityEnabled, page, maxPage, incrementPages,
                    allSeries, lastToggledBook, providers, selectedProviders,
                    selectedBookPage >>

\* (variant: changePage keeps the increment mode)
ChangePage_KeepsMode(p) ==
    /\ mounted
    /\ p \in 1..MaxPage
    /\ IF p = page
       THEN UNCHANGED vars
       ELSE /\ page' = p
            /\ ResetAllCall(p, incrementPages, sortOrder, "changePage")
            /\ UNCHANGED << call, cover, searchParams, mounted, allSeriesIds, allBookIds,
                            sortOrder, automaticCoverQualityEnabled, maxPage,
                            incrementPages, allSeries, lastToggledBook, providers,
                            selectedProviders, selectedBookPage >>

ChangePage(p) ==
    /\ mounted
    /\ p \in 1..MaxPage
    /\ IF p = page
       THEN UNCHANGED vars
       ELSE /\ page' = p
            /\ incrementPages' = FALSE
            /\ ResetAllCall(p, FALSE, sortOrder, "changePage")
            /\ UNCHANGED << call, cover, searchParams, mounted, allSeriesIds, allBookIds,
                            sortOrder, automaticCoverQualityEnabled, maxPage,
                            allSeries, lastToggledBook, providers,
                            selectedProviders, selectedBookPage >>

IncrementPage ==
    /\ mounted
    /\ IF ~isNextPage
       THEN UNCHANGED vars
       ELSE LET f == FetchBooksCall(isFetching, fetchedPages, page + 1, TRUE,
                                    sortOrder, MarkDirty(tasks), "incrementPage")
            IN  /\ page' = page + 1
                /\ incrementPages' = TRUE
                /\ isFetching' = f.isFetching
                /\ fetchedPages' = f.fetchedPages
                /\ tasks' = f.tasks
                /\ reported' = 0
                /\ UNCHANGED << call, cover, searchParams, mounted, loading, allSeriesIds,
                                allBookIds, sortOrder,
                                automaticCoverQualityEnabled, maxPage, allBooks,
                                allSeries, selectedBooks, lastToggledBook,
                                providers, selectedProviders, allBookPages,
                                selectedBookPage >>

ToggleSortOrder ==
    /\ mounted
    /\ sortOrder' = IF sortOrder = "asc" THEN "desc" ELSE "asc"
    /\ ResetAllCall(page, incrementPages, sortOrder', "toggleSortOrder")
    /\ UNCHANGED << call, cover, searchParams, mounted, allSeriesIds, allBookIds,
                    automaticCoverQualityEnabled, page, maxPage, incrementPages,
                    allSeries, lastToggledBook, providers, selectedProviders,
                    selectedBookPage >>

----------------------------------------------------------------------------
(* Selection *)

\* toggleBook(book, force) on a selection; force is "undefined", "true" or "false"
toggleBook(sel, book, force) ==
    LET bookIndex == FindIndex(sel, book) IN
    IF bookIndex = 0 /\ force \in {"undefined", "true"} THEN Append(sel, book)
    ELSE IF force = "undefined" \/ (bookIndex > 0 /\ force = "false")
    THEN RemoveAt(sel, bookIndex)
    ELSE sel

\* The loop of shiftSelect: toggleBook on sorted[from], ..., sorted[to]
RECURSIVE ToggleRange(_, _, _, _, _)
ToggleRange(sel, sorted, from, to, force) ==
    LET next == toggleBook(sel, sorted[from], force) IN
    IF from = to THEN next
    ELSE ToggleRange(next, sorted, IF from < to THEN from + 1 ELSE from - 1, to, force)

\* shiftSelect(event, book) on a displayed book
shiftSelect(book, shiftKey) ==
    LET sorted == sortedFilteredBooks
        lastSelectedBookIndex == FindIndex(sorted, lastToggledBook)
        bookIndex == FindIndex(sorted, book)
        isBookSelected == FindIndex(selectedBooks, book) > 0
        force == IF isBookSelected THEN "false" ELSE "true"
    IN  IF ~shiftKey \/ lastSelectedBookIndex = 0
        THEN [ selected |-> toggleBook(selectedBooks, book, "undefined"),
               last |-> book ]
        ELSE IF bookIndex # lastSelectedBookIndex
        THEN [ selected |-> ToggleRange(selectedBooks, sorted, lastSelectedBookIndex,
                                        bookIndex, force),
               last |-> sorted[bookIndex] ]
        ELSE [ selected |-> selectedBooks, last |-> lastToggledBook ]

\* A click on the card of a displayed book
ShiftSelect(k, shiftKey) ==
    /\ mounted
    /\ k \in DOMAIN sortedFilteredBooks
    /\ LET r == shiftSelect(sortedFilteredBooks[k], shiftKey)
       IN  /\ Len(r.selected) <= MaxSelected
           /\ selectedBooks' = r.selected
           /\ lastToggledBook' = r.last
    /\ UNCHANGED << call, cover, searchParams, mounted, loading, reported, isFetching,
                    allSeriesIds, allBookIds, sortOrder,
                    automaticCoverQualityEnabled, page, maxPage, incrementPages,
                    fetchedPages, allBooks, allSeries, providers,
                    selectedProviders, allBookPages, selectedBookPage, tasks >>

ToggleAllBooks ==
    /\ mounted
    /\ selectedBooks' = IF isAllSelected THEN << >> ELSE filteredBooks
    /\ Len(selectedBooks') <= MaxSelected
    /\ UNCHANGED << call, cover, searchParams, mounted, loading, reported, isFetching,
                    allSeriesIds, allBookIds, sortOrder,
                    automaticCoverQualityEnabled, page, maxPage, incrementPages,
                    fetchedPages, allBooks, allSeries, lastToggledBook, providers,
                    selectedProviders, allBookPages, selectedBookPage, tasks >>

\* The "automatically choose best quality" checkbox, shown with the books: it
\* binds automaticCoverQualityEnabled and empties the selection.
AutomaticQualityChange ==
    /\ mounted
    /\ sortedFilteredBooks # << >>
    /\ automaticCoverQualityEnabled' = ~automaticCoverQualityEnabled
    /\ selectedBooks' = << >>
    /\ UNCHANGED << call, cover, searchParams, mounted, loading, reported, isFetching,
                    allSeriesIds, allBookIds, sortOrder, page, maxPage,
                    incrementPages, fetchedPages, allBooks, allSeries,
                    lastToggledBook, providers, selectedProviders, allBookPages,
                    selectedBookPage, tasks >>

----------------------------------------------------------------------------
(* The specifications *)

\* The providers getBooks sends requests for
Requested == Keys(allSeriesIds) \cup Keys(allBookIds)

\* The steps of the fetch cycles in flight; reliable says that every catalog
\* request succeeds, measurable that every getInfo succeeds.  Building the
\* books of a response may throw in either case.
Responses(reliable, measurable) ==
    \/ \E i \in DOMAIN tasks :
        \E ok \in (IF reliable THEN {Range(providers)} ELSE SUBSET Range(providers)) :
            SeriesResponse(i, ok)
    \/ \E i \in DOMAIN tasks :
        \E ok \in (IF reliable THEN {Requested} ELSE SUBSET Requested) :
            \E throws \in BOOLEAN : BooksResponse(i, ok, throws)
    \/ \E i \in DOMAIN tasks :
        \E ok \in (IF reliable THEN {TRUE} ELSE BOOLEAN) : BookPagesResponse(i, ok)
    \/ \E i \in DOMAIN tasks :
        \E failed \in (IF measurable THEN {{}} ELSE SUBSET DOMAIN tasks[i].newBooks) :
            InfoResponse(i, failed)

\* The operations on the paging
Paging ==
    \/ FetchBooks
    \/ ResetAll
    \/ \E p \in 1..MaxPage : ChangePage(p)
    \/ IncrementPage
    \/ ToggleSortOrder

\* The operations on the selection
Selecting ==
    \/ \E k \in DOMAIN sortedFilteredBooks : \E shiftKey \in BOOLEAN :
            ShiftSelect(k, shiftKey)
    \/ ToggleAllBooks
    \/ AutomaticQualityChange

\* The orchestrator with a catalog service whose requests fail independently
Next ==
    \/ Initialize
    \/ FetchSeries
    \/ Responses(FALSE, TRUE)
    \/ Paging

Spec == Init /\ [][Next]_vars

\* The orchestrator with a network on which every call settles: the step of a
\* cycle that waits for a response is eventually taken
SpecSettles == Init /\ [][Next]_vars /\ WF_vars(Responses(FALSE, TRUE))

\* The orchestrator and the selection, with a catalog service that answers
\* every request
InitSelect == InitWith({AtCeiling})

NextSelect ==
    \/ Initialize
    \/ FetchSeries
    \/ Responses(TRUE, TRUE)
    \/ Paging
    \/ Selecting

SpecSelect == InitSelect /\ [][NextSelect]_vars

\* The orchestrator with a catalog service that answers every request and an
\* image service whose getInfo may fail for any book
InitInfo == InitWith({[series |-> [p \in ProviderSet |-> 1], books |-> NoIds]})

NextInfo ==
    \/ Initialize
    \/ Responses(TRUE, FALSE)
    \/ Paging

SpecInfo == InitInfo /\ [][NextInfo]_vars

\* automaticallyPickCovers on the books of a mounted page: Init draws the
\* books in allBooks and the book page that is selected
MaxBooks == 3

PickScores == {0, 30, 34}

PickInputs ==
    UNION { [1..n -> [id : 1..MaxPage, provider : ProviderSet,
                      coverQualityScore : PickScores]] : n \in 0..MaxBooks }

InitPick ==
    /\ searchParams = AtCeiling
    /\ mounted = TRUE
    /\ loading = FALSE
    /\ reported = 0
    /\ isFetching = FALSE
    /\ allSeriesIds = AtCeiling.series
    /\ allBookIds = AtCeiling.books
    /\ sortOrder = "asc"
    /\ automaticCoverQualityEnabled \in BOOLEAN
    /\ page = 1
    /\ maxPage = MaxPage
    /\ incrementPages = TRUE
    /\ fetchedPages = [g \in 1..MaxPage |-> g]
    /\ allBooks \in PickInputs
    /\ allSeries = << >>
    /\ selectedBooks = << >>
    /\ lastToggledBook = NoBook
    /\ providers = ProviderIds
    /\ selectedProviders = ProviderIds
    /\ allBookPages = << >>
    /\ selectedBookPage \in 0..1
    /\ tasks = << >>
    /\ call = NoCall
    /\ cover = NoCover

NextPick ==
    \/ ToggleAllBooks
    \/ AutomaticQualityChange

SpecPick == InitPick /\ [][NextPick]_vars

\* fetchBooks of incrementPage appends the books of the next page to allBooks
\* and leaves the selection alone.  The pages of the providers are not
\* aligned: a later page may hold a volume that is displayed already.
BooksArrive(b) ==
    /\ mounted
    /\ incrementPages
    /\ Len(allBooks) < MaxBooks
    /\ FindIndex(allBooks, b) = 0
    /\ allBooks' = Append(allBooks, b)
    /\ UNCHANGED << call, cover, searchParams, mounted, loading, reported, isFetching,
                    allSeriesIds, allBookIds, sortOrder,
                    automaticCoverQualityEnabled, page, maxPage, incrementPages,
                    fetchedPages, allSeries, selectedBooks, lastToggledBook,
                    providers, selectedProviders, allBookPages, selectedBookPage,
                    tasks >>

NextArrive ==
    \/ ToggleAllBooks
    \/ AutomaticQualityChange
    \/ \E b \in [id : 1..MaxPage, provider : ProviderSet,
                 coverQualityScore : PickScores] : BooksArrive(b)

\* The displayed books while pages arrive
SpecArrive == InitPick /\ [][NextArrive]_vars

----------------------------------------------------------------------------
(* The catalog client, request by request: getBooks and getBookPages *)

\* The largest number of book ids of one pages request
bookPagesMaxCount == 12

\* The largest number of requests of one getBooks call
MaxRequests == 3

\* What can become of one request: an answer without an error field, a
\* rejected fetch, a body that is not JSON, an answer with an error field
Outcomes == {"ok", "rejected", "unparsable", "error"}

chopArray(array, chunkSize) ==
    [c \in 1..((Len(array) + chunkSize - 1) \div chunkSize) |->
        SubSeq(array, (c - 1) * chunkSize + 1,
               IF c * chunkSize < Len(array) THEN c * chunkSize ELSE Len(array))]

\* The id list of a provider that has n ids
IdList(n) == [k \in 1..n |-> k]

\* The requests fetchAll(seriesType, ids) issues: one per provider and id
BooksRequests(seriesType, ids) ==
    UNION {{[type |-> seriesType, p |-> p, k |-> k] : k \in 1..ids[p]} :
            p \in ProviderSet}

\* The requests getBookPages issues: one per provider and chunk of book ids
PagesRequests(booksIds) ==
    UNION {{[type |-> "pages", p |-> p, k |-> c] :
                c \in DOMAIN chopArray(IdList(booksIds[p]), bookPagesMaxCount)} :
            p \in ProviderSet}

\* The body the catalog answers a request with: the k-th id of a provider
\* yields one book, and its page count is absent for the first id; a pages
\* request yields one page per book id of its chunk
Answer(r, input) ==
    IF r.type = "pages"
    THEN LET chunk == chopArray(IdList(input[r.p]), bookPagesMaxCount)[r.k]
         IN  [ data  |-> [j \in DOMAIN chunk |-> [book |-> chunk[j], provider |-> r.p]],
               count |-> Len(chunk),
               pages |-> 0 ]
    ELSE [ data  |-> << [id |-> r.k, provider |-> r.p, of |-> r.type] >>,
           count |-> 1,
           pages |-> IF r.k = 1 THEN 0 ELSE r.k ]

\* (variant: no request has a try/catch)
Catches_None(op) == FALSE

\* The calls whose requests run inside a try/catch
Catches(op) == op \in {"getBooks", "getBookPages"}

\* The requests of a phase are issued: each creates the provider's entry of
\* allData.data before its fetch
Issued(c, phase, reqs) ==
    [c EXCEPT !.phase = phase,
              !.pending = reqs,
              !.data = [p \in DOMAIN c.data \cup {r.p : r \in reqs} |->
                            IF p \in DOMAIN c.data THEN c.data[p] ELSE << >>]]

\* Promise.all of the requests in flight: when none is left the call goes on
\* to the book requests, or returns allData
Awaited(c) ==
    IF c.pending # {} \/ c.status = "rejected" THEN c
    ELSE IF c.op = "getBooks" /\ c.phase = "series"
              /\ BooksRequests("book", c.input.book) # {}
    THEN Issued(c, "book", BooksRequests("book", c.input.book))
    ELSE [c EXCEPT !.status = "fulfilled"]

\* allData of a call that begins
AllData(op, input) ==
    [ op |-> op, input |-> input, status |-> "pending", phase |-> "series",
      pending |-> {}, done |-> {}, data |-> << >>, count |-> 0, pages |-> 0,
      errors |-> << >> ]

\* The inputs of the calls: numbers of ids per provider
ApiInputs ==
    { [AllData("getBooks", [series |-> s, book |-> b]) EXCEPT !.status = "input"] :
        s \in [ProviderSet -> 0..MaxRequests], b \in [ProviderSet -> 0..MaxRequests] }
    \cup
    { [AllData("getBookPages", n) EXCEPT !.status = "input"] :
        n \in [ProviderSet -> {0, 1, bookPagesMaxCount, bookPagesMaxCount + 1}] }

\* getBooks(seriesIds, bookIds, sort, page) up to its first await
ApiGetBooks ==
    /\ call.op = "getBooks" /\ call.status = "input"
    /\ call' = Awaited(Issued(AllData("getBooks", call.input), "series",
                              BooksRequests("series", call.input.series)))
    /\ UNCHANGED << cover, searchParams, mounted, loading, reported, isFetching,
                    allSeriesIds, allBookIds, sortOrder,
                    automaticCoverQualityEnabled, page, maxPage, incrementPages,
                    fetchedPages, allBooks, allSeries, selectedBooks,
                    lastToggledBook, providers, selectedProviders, allBookPages,
                    selectedBookPage, tasks >>

\* getBookPages(booksIds) up to its first await
ApiGetBookPages ==
    /\ call.op = "getBookPages" /\ call.status = "input"
    /\ call' = Awaited(Issued(AllData("getBookPages", call.input), "pages",
                              PagesRequests(call.input)))
    /\ UNCHANGED << cover, searchParams, mounted, loading, reported, isFetching,
                    allSeriesIds, allBookIds, sortOrder,
                    automaticCoverQualityEnabled, page, maxPage, incrementPages,
                    fetchedPages, allBooks, allSeries, selectedBooks,
                    lastToggledBook, providers, selectedProviders, allBookPages,
                    selectedBookPage, tasks >>

\* One request settles: the rest of its async function
ApiSettle(r, outcome) ==
    /\ call.op \in {"getBooks", "getBookPages"} /\ call.status # "input"
    /\ r \in call.pending
    /\ LET body == Answer(r, call.input)
           merged ==
               IF outcome = "ok"
               THEN [call EXCEPT
                       !.data[r.p] = @ \o body.data,
                       !.count = @ + body.count,
                       !.pages = IF call.op = "getBooks"
                                 THEN Max(@, IF body.pages = 0 THEN 1 ELSE body.pages)
                                 ELSE @]
               ELSE IF outcome = "error" \/ Catches(call.op)
               THEN [call EXCEPT !.errors = Append(@, r.p)]
               ELSE [call EXCEPT !.status = "rejected"]
       IN  call' = Awaited([merged EXCEPT !.pending = @ \ {r},
                                          !.done = @ \cup {<< r, outcome >>}])
    /\ UNCHANGED << cover, searchParams, mounted, loading, reported, isFetching,
                    allSeriesIds, allBookIds, sortOrder,
                    automaticCoverQualityEnabled, page, maxPage, incrementPages,
                    fetchedPages, allBooks, allSeries, selectedBooks,
                    lastToggledBook, providers, selectedProviders, allBookPages,
                    selectedBookPage, tasks >>

\* A Downloader that was constructed and not mounted
Detached ==
    /\ DockInit({[series |-> NoIds, books |-> NoIds]})
    /\ sortOrder = "desc" /\ page = 1 /\ ~incrementPages

InitApi ==
    /\ Detached
    /\ call \in {c \in ApiInputs :
                    c.op = "getBooks" =>
                        CountIds(c.input.series) + CountIds(c.input.book) <= MaxRequests}
    /\ cover = NoCover

NextApi ==
    \/ ApiGetBooks
    \/ ApiGetBookPages
    \/ \E r \in call.pending : \E outcome \in Outcomes : ApiSettle(r, outcome)

SpecApi == InitApi /\ [][NextApi]_vars

----------------------------------------------------------------------------
(* getCovers, chunk by chunk, inside downloadSelectedCovers *)

\* The largest number of urls of one archive request
zipMaxCount == 6

\* The largest number of selected covers, and of covers the service leaves out
MaxUrls == 13

MaxMissing == 2

\* A slot of allImages that was never written
Undefined == 0

\* The cover url of the i-th selected book, and the bytes behind a url
UrlOf(i) == 2 * i

ImageOf(url) == url + 1

\* The archive the service answers a chunk with: the entry named by position
\* j holds the image of the j-th url of the chunk; the service leaves out the
\* urls in missing
Archive(chunk, missing) ==
    [j \in {k \in DOMAIN chunk : chunk[k] \notin missing} |-> ImageOf(chunk[j])]

\* (variant: the root index counts the urls of the chunk)
UrlRootIndex_ByLength(chunkIndex, chunk) == chunkIndex * Len(chunk)

\* urlRootIndex of a chunk (chunkIndex counts from 0)
UrlRootIndex(chunkIndex, chunk) == chunkIndex * zipMaxCount

\* The images a settled call hands to the packaging loop, which skips the
\* slots without image
ImagesToZip(images) == {images[i] : i \in DOMAIN images} \ {Undefined}

\* The selections and the urls the service leaves out
CoverInput(n, m) ==
    [ op |-> "getCovers", status |-> "input", urls |-> [i \in 1..n |-> UrlOf(i)],
      missing |-> {UrlOf(i) : i \in m}, pending |-> {}, done |-> {},
      allImages |-> << >>, progress |-> 0, downloadProgress |-> << >>,
      saved |-> {}, errors |-> 0 ]

CoverInputs ==
    UNION { { CoverInput(n, m) :
                m \in {x \in SUBSET (1..n) : Cardinality(x) <= MaxMissing} } :
            n \in 0..MaxUrls }

\* The end of downloadSelectedCovers: after getCovers has returned the images
\* are packaged and saved, after it has thrown the error is reported; then the
\* progress is cleared
Downloaded(c) ==
    IF c.status = "pending" /\ c.pending = {}
    THEN [c EXCEPT !.status = "fulfilled",
                   !.saved = ImagesToZip(c.allImages),
                   !.errors = @ + Cardinality({i \in DOMAIN c.allImages :
                                                c.allImages[i] = Undefined}),
                   !.downloadProgress = << >>]
    ELSE c

\* downloadSelectedCovers() up to the await inside getCovers
DownloadSelectedCovers ==
    /\ call.op = "getCovers" /\ call.status = "input"
    /\ call.downloadProgress = << >>
    /\ call' = Downloaded(
                 [call EXCEPT !.status = "pending",
                              !.downloadProgress = << 0 >>,
                              !.allImages = [i \in DOMAIN call.urls |-> Undefined],
                              !.pending = DOMAIN chopArray(call.urls, zipMaxCount)])
    /\ UNCHANGED << cover, searchParams, mounted, loading, reported, isFetching,
                    allSeriesIds, allBookIds, sortOrder,
                    automaticCoverQualityEnabled, page, maxPage, incrementPages,
                    fetchedPages, allBooks, allSeries, selectedBooks,
                    lastToggledBook, providers, selectedProviders, allBookPages,
                    selectedBookPage, tasks >>

\* The archive request of one chunk settles: the rest of its async function.
\* A failure is not caught there: Promise.all rejects, getCovers throws, and
\* the catch of downloadSelectedCovers reports once; the chunks still in
\* flight go on writing allImages and calling the progress callback.
CoversSettle(c, outcome) ==
    /\ call.op = "getCovers" /\ call.status # "input"
    /\ c \in call.pending
    /\ LET chunk == chopArray(call.urls, zipMaxCount)[c]
           unzipped == Archive(chunk, call.missing)
           root == UrlRootIndex(c - 1, chunk)
           written == [i \in DOMAIN call.allImages |->
                          IF \E j \in DOMAIN unzipped : i = root + (j - 1) + 1
                          THEN unzipped[i - root]
                          ELSE call.allImages[i]]
           settled == [call EXCEPT !.pending = @ \ {c},
                                   !.done = @ \cup {<< c, outcome >>}]
       IN  call' =
             IF outcome = "ok"
             THEN Downloaded([settled EXCEPT
                                !.allImages = written,
                                !.progress = @ + Len(chunk),
                                !.downloadProgress = << call.progress + Len(chunk) >>])
             ELSE IF call.status = "pending"
             THEN [settled EXCEPT !.status = "rejected",
                                  !.errors = @ + 1,
                                  !.downloadProgress = << >>]
             ELSE settled
    /\ UNCHANGED << cover, searchParams, mounted, loading, reported, isFetching,
                    allSeriesIds, allBookIds, sortOrder,
                    automaticCoverQualityEnabled, page, maxPage, incrementPages,
                    fetchedPages, allBooks, allSeries, selectedBooks,
                    lastToggledBook, providers, selectedProviders, allBookPages,
                    selectedBookPage, tasks >>

InitCovers ==
    /\ Detached
    /\ call \in CoverInputs
    /\ cover = NoCover

NextCovers ==
    \/ DownloadSelectedCovers
    \/ \E c \in call.pending : \E outcome \in {"ok", "rejected", "unparsable"} :
            CoversSettle(c, outcome)

SpecCovers == InitCovers /\ [][NextCovers]_vars

----------------------------------------------------------------------------
(* The cover of one book: getInfo, getCoverQualityScore, toggleCropCovers *)

\* Fields that are undefined
NoScore == -1

NoUrl == [src |-> 0, width |-> 0, cw |-> 0, cx |-> 0]

THUMBNAIL_WIDTH == 336

\* imageApi.getUrl(source, options): the url of the transformed image; the
\* output format and quality are settings and do not vary
GetUrl(source, width, cw, cx) == [src |-> source.src, width |-> width, cw |-> cw, cx |-> cx]

\* The answers of getInfo: formats, sizes (width, height) and chroma
\* subsamplings ("" when the answer has none)
InfoFormats == {"png", "JPEG", "webp", "gif"}

InfoSizes ==
    { << 1000, 1000 >>, << 880, 1200 >>, << 964, 1200 >>, << 965, 1200 >>,
      << 230, 300 >>, << 3000, 4100 >>, << 2100, 2800 >>, << 1600, 2133 >>,
      << 900, 1200 >>, << 2500, 3000 >>, << 1800, 2500 >>, << 2190, 3000 >>,
      << 2400, 3000 >>, << 2000, 2600 >> }

InfoChromas == {"", "4:4:4", "4:2:2", "4:2:0", "4:1:1"}

ToLowerCase(format) == IF format = "JPEG" THEN "jpeg" ELSE format

\* (variant: the rule for wide covers is tried before the rule for tall ones)
calculateCropAmount_WidthFirst(width, height) ==
    LET aspect == (100 * width) \div height
        tall == aspect >= 73 /\ aspect < 80
    IN  IF width >= 880 /\ width <= 964 /\ height = 1200 THEN 120
        ELSE IF width >= 220 /\ width <= 241 /\ height = 300 THEN 30
        ELSE IF width > 2000 /\ height > 2000 /\ tall THEN -211
        ELSE IF height > 4000 /\ tall THEN -355
        ELSE IF width < 2000 /\ height > 2000 /\ tall THEN -224
        ELSE 0

calculateCropAmount(width, height) ==
    LET aspect == (100 * width) \div height
        tall == aspect >= 73 /\ aspect < 80
    IN  IF width >= 880 /\ width <= 964 /\ height = 1200 THEN 120
        ELSE IF width >= 220 /\ width <= 241 /\ height = 300 THEN 30
        ELSE IF height > 4000 /\ tall THEN -355
        ELSE IF width > 2000 /\ height > 2000 /\ tall THEN -211
        ELSE IF width < 2000 /\ height > 2000 /\ tall THEN -224
        ELSE 0

Abs(n) == IF n < 0 THEN -n ELSE n

\* Math.floor(Math.sqrt(resolution) / 20)
ResScore(resolution) ==
    CHOOSE k \in 0..500 : 400 * k * k <= resolution /\ resolution < 400 * (k + 1) * (k + 1)

getCoverQualityScore(book) ==
    LET resScore == ResScore(book.coverWidth * book.coverHeight)
        formatKey == ToLowerCase(book.coverFormat)
        formatScore == IF formatKey = "png" THEN 9
                       ELSE IF formatKey \in {"jpeg", "jpg"} THEN 6
                       ELSE IF formatKey = "webp" THEN 3
                       ELSE 0
        chromaScore == IF formatKey \in {"jpeg", "jpg"} /\ book.chromaSubsampling # ""
                       THEN (IF book.chromaSubsampling = "4:4:4" THEN 8
                             ELSE IF book.chromaSubsampling = "4:2:2" THEN 6
                             ELSE 4)
                       ELSE 8
    IN  (resScore + formatScore + chromaScore + 1) \div 2

\* (variant: the score is left as it was)
Rescored_Stale(book) == book

\* book.coverQualityScore = this.getCoverQualityScore(book), at the end of
\* both branches of toggleCropCovers
Rescored(book) == [book EXCEPT !.coverQualityScore = getCoverQualityScore(book)]

\* (variant: the uncrop keeps the cropped thumbnail)
Uncropped_KeepsThumbnail(book) ==
    Rescored([book EXCEPT
        !.cover = IF book.originalCover # NoUrl THEN book.originalCover ELSE @,
        !.coverWidth = IF book.originalWidth # 0 THEN book.originalWidth ELSE @,
        !.originalCover = NoUrl, !.originalThumbnail = NoUrl, !.originalWidth = 0,
        !.coverIsCropped = "false"])

\* (variant: the uncrop keeps the cropped width)
Uncropped_KeepsWidth(book) ==
    Rescored([book EXCEPT
        !.cover = IF book.originalCover # NoUrl THEN book.originalCover ELSE @,
        !.thumbnail = IF book.originalThumbnail # NoUrl THEN book.originalThumbnail ELSE @,
        !.originalCover = NoUrl, !.originalThumbnail = NoUrl, !.originalWidth = 0,
        !.coverIsCropped = "false"])

\* (variant: the uncrop restores the book and keeps the crop record)
Uncropped_KeepsRecord(book) ==
    Rescored([book EXCEPT
        !.cover = IF book.originalCover # NoUrl THEN book.originalCover ELSE @,
        !.thumbnail = IF book.originalThumbnail # NoUrl THEN book.originalThumbnail ELSE @,
        !.coverWidth = IF book.originalWidth # 0 THEN book.originalWidth ELSE @,
        !.coverIsCropped = "false"])

\* The branch of toggleCropCovers for crop = false, on one book
Uncropped(book) ==
    Rescored([book EXCEPT
        !.cover = IF book.originalCover # NoUrl THEN book.originalCover ELSE @,
        !.thumbnail = IF book.originalThumbnail # NoUrl THEN book.originalThumbnail ELSE @,
        !.coverWidth = IF book.originalWidth # 0 THEN book.originalWidth ELSE @,
        !.originalCover = NoUrl, !.originalThumbnail = NoUrl, !.originalWidth = 0,
        !.coverIsCropped = "false"])

\* (variant: the thumbnail is cropped by the amount of the full cover)
Cropped_ThumbnailUnscaled(book) ==
    LET cropAmount == calculateCropAmount(book.coverWidth, book.coverHeight)
        absoluteCropAmount == Abs(cropAmount)
        croppedWidth == book.coverWidth - absoluteCropAmount
    IN  IF book.coverIsCropped = "true" THEN book
        ELSE IF book.coverHeight = 0 \/ book.coverWidth = 0 THEN book
        ELSE IF cropAmount = 0 THEN book
        ELSE Rescored([book EXCEPT
                !.originalCover = book.cover,
                !.originalThumbnail = book.thumbnail,
                !.originalWidth = book.coverWidth,
                !.cover = GetUrl(book.cover, book.coverWidth,
                                 IF cropAmount > 0 THEN croppedWidth ELSE 0,
                                 IF cropAmount < 0 THEN absoluteCropAmount ELSE 0),
                !.thumbnail = GetUrl(book.cover, THUMBNAIL_WIDTH,
                                     IF cropAmount > 0 THEN THUMBNAIL_WIDTH - absoluteCropAmount ELSE 0,
                                     IF cropAmount < 0 THEN absoluteCropAmount ELSE 0),
                !.coverWidth = croppedWidth,
                !.coverIsCropped = "true"])

\* The branch of toggleCropCovers for crop = true, on one book
Cropped(book) ==
    LET cropAmount == calculateCropAmount(book.coverWidth, book.coverHeight)
        absoluteCropAmount == Abs(cropAmount)
        croppedWidth == book.coverWidth - absoluteCropAmount
        thumbnailAbsoluteCropAmount ==
            (2 * absoluteCropAmount * THUMBNAIL_WIDTH + book.coverWidth)
                \div (2 * book.coverWidth)
        thumbnailCroppedWidth == THUMBNAIL_WIDTH - thumbnailAbsoluteCropAmount
    IN  IF book.coverIsCropped = "true" THEN book
        ELSE IF book.coverHeight = 0 \/ book.coverWidth = 0 THEN book
        ELSE IF cropAmount = 0 THEN book
        ELSE Rescored([book EXCEPT
                !.originalCover = book.cover,
                !.originalThumbnail = book.thumbnail,
                !.originalWidth = book.coverWidth,
                !.cover = GetUrl(book.cover, book.coverWidth,
                                 IF cropAmount > 0 THEN croppedWidth ELSE 0,
                                 IF cropAmount < 0 THEN absoluteCropAmount ELSE 0),
                !.thumbnail = GetUrl(book.cover, THUMBNAIL_WIDTH,
                                     IF cropAmount > 0 THEN thumbnailCroppedWidth ELSE 0,
                                     IF cropAmount < 0 THEN thumbnailAbsoluteCropAmount ELSE 0),
                !.coverWidth = croppedWidth,
                !.coverIsCropped = "true"])

toggleCropCovers(book, crop) == IF crop THEN Cropped(book) ELSE Uncropped(book)

\* A book as fetchBooks builds it from a catalog answer, before getInfo
NewCover ==
    [ id |-> 1, shown |-> FALSE,
      cover |-> [src |-> 1, width |-> 0, cw |-> 0, cx |-> 0],
      thumbnail |-> GetUrl([src |-> 1], THUMBNAIL_WIDTH, 0, 0),
      coverFormat |-> "", coverWidth |-> 0, coverHeight |-> 0,
      chromaSubsampling |-> "", coverQualityScore |-> NoScore,
      originalCover |-> NoUrl, originalThumbnail |-> NoUrl, originalWidth |-> 0,
      coverIsCropped |-> "undefined" ]

\* getInfo of the book's cover settles inside fetchBooks, with an answer or
\* (format = "") with an error; with the automatic crop setting the book is
\* cropped before it joins allBooks
CoverInfo(format, size, chroma, automaticCrop) ==
    /\ cover.id # 0 /\ ~cover.shown
    /\ LET info == [cover EXCEPT !.coverFormat = format,
                                 !.coverHeight = size[2],
                                 !.coverWidth = size[1],
                                 !.chromaSubsampling = chroma]
           measured ==
               IF format = "" THEN cover
               ELSE [info EXCEPT !.coverQualityScore = getCoverQualityScore(info)]
           joined == IF automaticCrop THEN toggleCropCovers(measured, TRUE) ELSE measured
       IN  cover' = [joined EXCEPT !.shown = TRUE]
    /\ UNCHANGED << call, searchParams, mounted, loading, reported, isFetching,
                    allSeriesIds, allBookIds, sortOrder,
                    automaticCoverQualityEnabled, page, maxPage, incrementPages,
                    fetchedPages, allBooks, allSeries, selectedBooks,
                    lastToggledBook, providers, selectedProviders, allBookPages,
                    selectedBookPage, tasks >>

\* toggleCropCovers(selectedBooks, crop) with the book among the selected
ToggleCropCovers(crop) ==
    /\ cover.id # 0 /\ cover.shown
    /\ cover' = toggleCropCovers(cover, crop)
    /\ UNCHANGED << call, searchParams, mounted, loading, reported, isFetching,
                    allSeriesIds, allBookIds, sortOrder,
                    automaticCoverQualityEnabled, page, maxPage, incrementPages,
                    fetchedPages, allBooks, allSeries, selectedBooks,
                    lastToggledBook, providers, selectedProviders, allBookPages,
                    selectedBookPage, tasks >>

InitCrop ==
    /\ Detached
    /\ call = NoCall
    /\ cover = NewCover

NextCrop ==
    \/ \E format \in InfoFormats \cup {""} : \E size \in InfoSizes :
        \E chroma \in InfoChromas : \E automaticCrop \in BOOLEAN :
            CoverInfo(format, size, chroma, automaticCrop)
    \/ \E crop \in BOOLEAN : ToggleCropCovers(crop)

SpecCrop == InitCrop /\ [][NextCrop]_vars

----------------------------------------------------------------------------
(* The packaging loop of downloadSelectedCovers *)

\* The largest number of selected books of a packaging run, and of runs;
\* `saved` is what the current run has handed to fileSaver, `named` the names
\* its loop gave to the books it kept
MaxPacked == 3

MaxRuns == 2

\* File names are sequences of pieces of text.  The names the templates are
\* rendered to: a name with an extension, the name that a first collision of
\* it is given, a name without extension, a name that starts with its only
\* dot, and a name in a folder
NameInputs ==
    { << "name", ".", "jpg" >>, << "name", " (1)", ".", "jpg" >>, << "name" >>,
      << ".", "name" >>, << "dir", "/", "name", ".", "png" >> }

\* ` (${counter})`
Suffix(k) == " (" \o ToString(k) \o ")"

\* imageFileName.lastIndexOf('.'), counted from 1; 0 when there is no dot
LastDotIndex(name) ==
    IF \E i \in DOMAIN name : name[i] = "."
    THEN CHOOSE i \in DOMAIN name : name[i] = "." /\ \A j \in (i + 1)..Len(name) : name[j] # "."
    ELSE 0

\* filterFilename(_, {isPath: true}) of a rendered name with a counter put in
filterFilename(name) == name

\* (variant: the counter is always put at the end)
Renamed_AtEnd(name, k) == filterFilename(Append(name, Suffix(k)))

\* The name of a book whose rendered name was used k times before
Renamed(name, k) ==
    LET lastDotIndex == LastDotIndex(name)
    IN  IF lastDotIndex > 1
        THEN filterFilename(SubSeq(name, 1, lastDotIndex - 1) \o << Suffix(k) >>
                                \o SubSeq(name, lastDotIndex, Len(name)))
        ELSE filterFilename(Append(name, Suffix(k)))

\* imageKey.split('/').pop() || 'cover.jpg'
Leaf(name) ==
    LET slashes == {i \in DOMAIN name : name[i] = "/"}
        from == IF slashes = {} THEN 1
                ELSE 1 + CHOOSE i \in slashes : \A j \in slashes : j <= i
    IN  IF from > Len(name) THEN << "cover", ".", "jpg" >>
        ELSE SubSeq(name, from, Len(name))

\* The displayed books: per book what getCovers and fileTypeFromBuffer find
\* behind its cover url (no bytes, an image, something else) and the name the
\* templates render for it.  selectedBooks, the urls that were fetched and the
\* array the loop runs over are sequences of positions in books.
PackInputs ==
    UNION { [1..n -> [bytes : {"none", "image", "other"}, name : NameInputs]] :
            n \in 0..MaxPacked }

PackInput(books) ==
    [ op |-> "pack", status |-> "idle", books |-> books, runs |-> 0, index |-> 0,
      selectedBooks |-> [i \in DOMAIN books |-> i], urls |-> << >>, loop |-> << >>,
      knownFilenames |-> << >>, imagesToZip |-> << >>, named |-> << >>,
      saved |-> << >>, errors |-> 0, outcome |-> "none",
      downloadProgress |-> << >> ]

\* knownFilenames = {}; downloadProgress = undefined
PackEnd(c) ==
    [c EXCEPT !.status = "idle", !.knownFilenames = << >>, !.downloadProgress = << >>]

\* The catch of downloadSelectedCovers
PackFailed(c) == PackEnd([c EXCEPT !.errors = @ + 1, !.outcome = "failed"])

\* After the loop: nothing, one file, or one archive is saved
PackSaved(c) ==
    LET keys == DOMAIN c.imagesToZip
        done == [c EXCEPT !.outcome = "saved"]
    IN  PackEnd(
          IF Cardinality(keys) = 0 THEN done
          ELSE IF Cardinality(keys) = 1
          THEN [done EXCEPT !.saved = Append(@, [kind |-> "file",
                                              name |-> Leaf(CHOOSE k \in keys : TRUE),
                                              entries |-> c.imagesToZip])]
          ELSE [done EXCEPT !.saved = Append(@, [kind |-> "zip",
                                              name |-> << "covers", ".", "zip" >>,
                                              entries |-> c.imagesToZip])])

\* images[index]: what was fetched from urls[index]
ImageAt(c, index) ==
    IF index \in DOMAIN c.urls THEN c.books[c.urls[index]].bytes ELSE "none"

\* The loop from position c.index up to its next await: books without bytes
\* are reported and skipped; a book with bytes waits for fileTypeFromBuffer
RECURSIVE PackLoop(_)
PackLoop(c) ==
    IF c.index > Len(c.loop) THEN PackSaved(c)
    ELSE IF ImageAt(c, c.index) = "none"
    THEN PackLoop([c EXCEPT !.index = @ + 1, !.errors = @ + 1])
    ELSE [c EXCEPT !.status = "sniff"]

\* The rest of an iteration for a book whose bytes are an image
PackNamed(c) ==
    LET rendered == c.books[c.loop[c.index]].name
        count == IF rendered \in DOMAIN c.knownFilenames
                 THEN c.knownFilenames[rendered] + 1 ELSE 0
        known == [n \in DOMAIN c.knownFilenames \cup {rendered} |->
                    IF n = rendered THEN count ELSE c.knownFilenames[n]]
        imageFileName == IF count > 0 THEN Renamed(rendered, count) ELSE rendered
    IN  [c EXCEPT !.knownFilenames = known,
                  !.imagesToZip = [n \in DOMAIN c.imagesToZip \cup {imageFileName} |->
                                      IF n = imageFileName THEN c.urls[c.index]
                                      ELSE c.imagesToZip[n]],
                  !.named = Append(@, [book |-> c.loop[c.index], as |-> imageFileName,
                                       image |-> c.urls[c.index]])]

\* downloadSelectedCovers() up to the await of getCovers
PackDownload ==
    /\ call.op = "pack" /\ call.status = "idle"
    /\ call.runs < MaxRuns
    /\ call.downloadProgress = << >>
    /\ call' = [call EXCEPT !.status = "covers", !.runs = @ + 1, !.index = 1,
                            !.imagesToZip = << >>, !.named = << >>,
                            !.saved = << >>, !.outcome = "none",
                            !.urls = call.selectedBooks, !.loop = << >>,
                            !.downloadProgress = << 0 >>]
    /\ UNCHANGED << cover, searchParams, mounted, loading, reported, isFetching,
                    allSeriesIds, allBookIds, sortOrder,
                    automaticCoverQualityEnabled, page, maxPage, incrementPages,
                    fetchedPages, allBooks, allSeries, selectedBooks,
                    lastToggledBook, providers, selectedProviders, allBookPages,
                    selectedBookPage, tasks >>

\* getCovers settles: it returns the images, and the loop starts over the
\* array that selectedBooks holds now; or it throws
PackCovers(ok) ==
    /\ call.op = "pack" /\ call.status = "covers"
    /\ call' = IF ok
               THEN PackLoop([call EXCEPT !.status = "loop",
                                          !.loop = call.selectedBooks,
                                          !.downloadProgress = << Len(call.urls) >>])
               ELSE PackFailed(call)
    /\ UNCHANGED << cover, searchParams, mounted, loading, reported, isFetching,
                    allSeriesIds, allBookIds, sortOrder,
                    automaticCoverQualityEnabled, page, maxPage, incrementPages,
                    fetchedPages, allBooks, allSeries, selectedBooks,
                    lastToggledBook, providers, selectedProviders, allBookPages,
                    selectedBookPage, tasks >>

\* fileTypeFromBuffer settles for the book at c.index: a book whose bytes
\* are no image is reported and skipped, an image is named and kept; then the
\* loop goes on.  The call may throw.
PackSniff(throws) ==
    /\ call.op = "pack" /\ call.status = "sniff"
    /\ call' = IF throws THEN PackFailed(call)
               ELSE IF ImageAt(call, call.index) = "image"
               THEN PackLoop([PackNamed(call) EXCEPT !.status = "loop", !.index = @ + 1])
               ELSE PackLoop([call EXCEPT !.status = "loop", !.index = @ + 1,
                                          !.errors = @ + 1])
    /\ UNCHANGED << cover, searchParams, mounted, loading, reported, isFetching,
                    allSeriesIds, allBookIds, sortOrder,
                    automaticCoverQualityEnabled, page, maxPage, incrementPages,
                    fetchedPages, allBooks, allSeries, selectedBooks,
                    lastToggledBook, providers, selectedProviders, allBookPages,
                    selectedBookPage, tasks >>

InitPack ==
    /\ Detached
    /\ call \in {PackInput(books) : books \in PackInputs}
    /\ cover = NoCover

NextPack ==
    \/ PackDownload
    \/ \E ok \in BOOLEAN : PackCovers(ok)
    \/ \E throws \in BOOLEAN : PackSniff(throws)

SpecPack == InitPack /\ [][NextPack]_vars

\* Shift+A while the covers are downloaded: toggleAllBooks, with every
\* displayed book in filteredBooks
PackToggleAllBooks ==
    /\ call.op = "pack" /\ call.status # "idle"
    /\ call' = [call EXCEPT !.selectedBooks =
                    IF Len(call.books) = Len(call.selectedBooks) THEN << >>
                    ELSE [i \in DOMAIN call.books |-> i]]
    /\ UNCHANGED << cover, searchParams, mounted, loading, reported, isFetching,
                    allSeriesIds, allBookIds, sortOrder,
                    automaticCoverQualityEnabled, page, maxPage, incrementPages,
                    fetchedPages, allBooks, allSeries, selectedBooks,
                    lastToggledBook, providers, selectedProviders, allBookPages,
                    selectedBookPage, tasks >>

\* The packaging with a selection of some of the displayed books, in the
\* order they were clicked, and the keyboard shortcut
InitShortcut ==
    /\ Detached
    /\ call \in { [PackInput(books) EXCEPT !.selectedBooks = sel] :
                    books \in UNION { [1..n -> [bytes : {"none", "image", "other"},
                                               name : {<< "name", ".", "jpg" >>,
                                                       << "name" >>}]] :
                                      n \in 0..MaxPacked },
                    sel \in UNION { [1..m -> 1..MaxPacked] : m \in 0..MaxPacked } }
    /\ \A i \in DOMAIN call.selectedBooks :
            /\ call.selectedBooks[i] \in DOMAIN call.books
            /\ \A j \in DOMAIN call.selectedBooks :
                    call.selectedBooks[i] = call.selectedBooks[j] => i = j
    /\ cover = NoCover

NextShortcut == NextPack \/ PackToggleAllBooks

SpecShortcut == InitShortcut /\ [][NextShortcut]_vars

----------------------------------------------------------------------------
(* Title parsing: getVolumePrefix, getVolumeNumber, parseVolumeName *)

\* The largest number of parts of a title
MaxTitle == 4

\* A title is a sequence of pieces of text: single characters, and the words
\* Volume, Chapter, chapter, vol and No, each standing for its letters.  The
\* characters outside ASCII are written by name: "FW0" .. "FW9" the full-width
\* digits U+FF10 .. U+FF19, "FW." the full-width full stop U+FF0E, "FW/" the
\* full-width solidus U+FF0F, "MIDDLE DOT" U+30FB, "YEAR" U+5E74 and "MONTH"
\* U+6708.  Titles are put together from these parts.
TitleParts ==
    { << "Volume", " " >>, << "Chapter", " " >>, << "chapter" >>,
      << "vol", "." >>, << "No", "." >>, << " " >>,
      << "(", "1", ")" >>, << "(", "2", ")" >>,
      << "0" >>, << "1" >>, << "2" >>, << "7" >>,
      << "FW0" >>, << "FW2" >>, << "." >>, << "#" >>, << "YEAR" >>, << "x" >> }

RECURSIVE Titles(_)
Titles(n) ==
    IF n = 0 THEN {<< >>}
    ELSE LET shorter == Titles(n - 1)
         IN  shorter \cup {t \o p : t \in shorter, p \in TitleParts}

\* provider.volumePrefix: absent, or a prefix
ForcePrefixes == {"", "Ch."}

\* \d
IsDigit(c) == c \in {"0", "1", "2", "3", "4", "5", "6", "7", "8", "9"}

\* title.replace(/[FW. , # / FW/ MIDDLE DOT YEAR MONTH]/g, '.')
Separated(title) ==
    [i \in DOMAIN title |->
        IF title[i] \in {"FW.", ",", "#", "/", "FW/", "MIDDLE DOT", "YEAR", "MONTH"} THEN "." ELSE title[i]]

\* The ten full-width digits, split('')
japaneseCharacters ==
    << "FW0", "FW1", "FW2", "FW3", "FW4", "FW5", "FW6", "FW7", "FW8", "FW9" >>

\* (variant: the full-width digits are left as they are)
Translated_Not(s) == s

\* japaneseCharacters.forEach((character, i) => replaceAll(character, i.toString()))
Translated(s) ==
    [i \in DOMAIN s |->
        IF \E k \in DOMAIN japaneseCharacters : s[i] = japaneseCharacters[k]
        THEN ToString((CHOOSE k \in DOMAIN japaneseCharacters : s[i] = japaneseCharacters[k]) - 1)
        ELSE s[i]]

\* \d+ from position i: the position of its last digit, 0 when s[i] is no digit
RECURSIVE DigitsEnd(_, _)
DigitsEnd(s, i) ==
    IF i > Len(s) \/ ~IsDigit(s[i]) THEN 0
    ELSE IF i + 1 <= Len(s) /\ IsDigit(s[i + 1]) THEN DigitsEnd(s, i + 1)
    ELSE i

\* \d+(?:(?:\.\d+)+)? from position i: the position of its last digit, or 0
RECURSIVE NumberEnd(_, _)
NumberEnd(s, i) ==
    LET j == DigitsEnd(s, i)
    IN  IF j = 0 THEN 0
        ELSE IF j + 2 <= Len(s) /\ s[j + 1] = "." /\ IsDigit(s[j + 2])
        THEN NumberEnd(s, j + 2)
        ELSE j

\* \s+ from position i: the position after the spaces, 0 without a space
RECURSIVE SpacesEnd(_, _)
SpacesEnd(s, i) ==
    IF i > Len(s) \/ s[i] # " " THEN 0
    ELSE IF i + 1 <= Len(s) /\ s[i + 1] = " " THEN SpacesEnd(s, i + 1)
    ELSE i + 1

\* (?:Volume\s+|Chapter\s+|vol\.|No\.) from position i, letters of either
\* case: the position where the number has to start, or 0
MarkerEnd(s, i) ==
    IF i > Len(s) THEN 0
    ELSE IF s[i] \in {"Volume", "volume", "Chapter", "chapter"} THEN SpacesEnd(s, i + 1)
    ELSE IF s[i] \in {"vol", "Vol", "No", "no"} /\ i + 1 <= Len(s) /\ s[i + 1] = "."
    THEN i + 2
    ELSE 0

\* Where a match of pattern p (1..4) that starts at position i ends, or 0;
\* and where its number starts
MatchEnd(p, s, i) ==
    CASE p = 1 -> IF MarkerEnd(s, i) = 0 THEN 0 ELSE NumberEnd(s, MarkerEnd(s, i))
      [] p = 2 -> IF i <= Len(s) /\ s[i] = "(" /\ NumberEnd(s, i + 1) # 0
                     /\ NumberEnd(s, i + 1) + 1 <= Len(s)
                     /\ s[NumberEnd(s, i + 1) + 1] = ")"
                  THEN NumberEnd(s, i + 1) + 1 ELSE 0
      [] p = 3 -> IF i <= Len(s) /\ s[i] = " " /\ NumberEnd(s, i + 1) # 0
                     /\ NumberEnd(s, i + 1) + 1 <= Len(s)
                     /\ s[NumberEnd(s, i + 1) + 1] = " "
                  THEN NumberEnd(s, i + 1) + 1 ELSE 0
      [] p = 4 -> NumberEnd(s, i)

\* String.prototype.match with a pattern with the g flag: all matches from
\* left to right, each search starting behind the match before
RECURSIVE MatchAll(_, _, _)
MatchAll(p, s, i) ==
    IF i > Len(s) THEN << >>
    ELSE IF MatchEnd(p, s, i) # 0
    THEN << SubSeq(s, i, MatchEnd(p, s, i)) >> \o MatchAll(p, s, MatchEnd(p, s, i) + 1)
    ELSE MatchAll(p, s, i + 1)

\* String.prototype.match with the marker pattern, which has no g flag: the
\* first match and its captured number, or nothing
MatchMarker(s) ==
    LET starts == {i \in DOMAIN s : MatchEnd(1, s, i) # 0}
        first == CHOOSE i \in starts : \A j \in starts : i <= j
    IN  IF starts = {} THEN << >>
        ELSE << SubSeq(s, first, MatchEnd(1, s, first)),
                SubSeq(s, MarkerEnd(s, first), MatchEnd(1, s, first)) >>

\* /(?:0+)?(\d+(?:(?:\.\d+)+)?)/g.exec(volumeString) and the pop of its
\* result: the captured number of the first match, nothing without a match.
\* The zeros are taken greedily and given back one by one until a digit is
\* left for the number.
Unpadded(s) ==
    LET starts == {i \in DOMAIN s : IsDigit(s[i])}
        first == CHOOSE i \in starts : \A j \in starts : i <= j
        last == DigitsEnd(s, first)
        nonzero == {i \in first..last : s[i] # "0"}
        from == IF nonzero = {} THEN last
                ELSE CHOOSE i \in nonzero : \A j \in nonzero : i <= j
    IN  IF starts = {} THEN << >> ELSE SubSeq(s, from, NumberEnd(s, from))

getVolumeNumber(title) ==
    LET volumeString == Translated(Separated(title))
        marker == MatchMarker(volumeString)
        spaceMatch == IF marker # << >> THEN marker
                      ELSE IF MatchAll(2, volumeString, 1) # << >>
                      THEN MatchAll(2, volumeString, 1)
                      ELSE IF MatchAll(3, volumeString, 1) # << >>
                      THEN MatchAll(3, volumeString, 1)
                      ELSE MatchAll(4, volumeString, 1)
    IN  IF spaceMatch # << >> THEN Unpadded(spaceMatch[Len(spaceMatch)])
        ELSE Unpadded(volumeString)

\* /Chapter|#\d+/i.test(title)
getVolumePrefix(title) ==
    IF \E i \in DOMAIN title :
          \/ title[i] \in {"Chapter", "chapter"}
          \/ title[i] = "#" /\ i + 1 <= Len(title) /\ IsDigit(title[i + 1])
    THEN "Chapter" ELSE "Volume"

\* title.trim()
RECURSIVE Trimmed(_)
Trimmed(title) ==
    IF title = << >> THEN title
    ELSE IF Head(title) = " " THEN Trimmed(Tail(title))
    ELSE IF title[Len(title)] = " " THEN Trimmed(SubSeq(title, 1, Len(title) - 1))
    ELSE title

\* (variant: the title is returned untrimmed)
parseVolumeName_Raw(title, forcePrefix) ==
    LET volumePrefix == IF forcePrefix # "" THEN forcePrefix ELSE getVolumePrefix(title)
        volumeNumber == getVolumeNumber(title)
    IN  IF volumeNumber # << >> THEN << volumePrefix, " " >> \o volumeNumber
        ELSE title

parseVolumeName(title, forcePrefix) ==
    LET volumePrefix == IF forcePrefix # "" THEN forcePrefix ELSE getVolumePrefix(title)
        volumeNumber == getVolumeNumber(title)
    IN  IF volumeNumber # << >> THEN << volumePrefix, " " >> \o volumeNumber
        ELSE Trimmed(title)

\* A book of a catalog answer before fetchBooks decorates it
TitleInputs ==
    { [ op |-> "title", status |-> "input", title |-> t, forcePrefix |-> "",
        volumeName |-> << >>, volumeNumber |-> << >> ] : t \in Titles(MaxTitle) }

\* fetchBooks builds the Book of a catalog entry of a provider with the
\* given volumePrefix
DecorateBook(forcePrefix) ==
    /\ call.op = "title" /\ call.status = "input"
    /\ call' = [call EXCEPT
                  !.status = "book",
                  !.forcePrefix = forcePrefix,
                  !.volumeName = parseVolumeName(call.title, forcePrefix),
                  !.volumeNumber = IF getVolumeNumber(call.title) # << >>
                                   THEN getVolumeNumber(call.title) ELSE << "0" >>]
    /\ UNCHANGED << cover, searchParams, mounted, loading, reported, isFetching,
                    allSeriesIds, allBookIds, sortOrder,
                    automaticCoverQualityEnabled, page, maxPage, incrementPages,
                    fetchedPages, allBooks, allSeries, selectedBooks,
                    lastToggledBook, providers, selectedProviders, allBookPages,
                    selectedBookPage, tasks >>

InitTitle ==
    /\ Detached
    /\ call \in TitleInputs
    /\ cover = NoCover

NextTitle == \E forcePrefix \in ForcePrefixes : DecorateBook(forcePrefix)

SpecTitle == InitTitle /\ [][NextTitle]_vars

----------------------------------------------------------------------------
(* Properties *)

NoDuplicates(s) == \A i, j \in DOMAIN s : i # j => s[i] # s[j]

IsPrefix(s, t) == Len(s) <= Len(t) /\ SubSeq(t, 1, Len(s)) = s

\* The requests of the cycles in flight, without the marks of later operations
Requests(ts) == [i \in DOMAIN ts |-> [ts[i] EXCEPT !.stale = FALSE, !.dirty = FALSE]]

\* A step of resetAll, called for itself or by changePage or toggleSortOrder
ResetStep == ResetAll \/ (\E p \in 1..MaxPage : ChangePage(p)) \/ ToggleSortOrder

\* b is a book the catalog holds on page g of the query in the order sort
BookOfPage(b, sort, g) ==
    \E k \in DOMAIN CatalogBooks(b.provider, sort, g) :
        CatalogBooks(b.provider, sort, g)[k].id = b.id

\* C1: a fetchBooks or fetchSeries call made while a fetch cycle is in flight
\* (directly, or by incrementPage, resetAll, changePage or toggleSortOrder)
\* issues no request and changes neither allBooks nor fetchedPages (a reset
\* empties them itself, and its fetchBooks adds nothing); it is not queued: a
\* cycle that goes on after a response is the cycle of the same caller, and
\* isFetching is true exactly while the one cycle is in flight.
C1_ReentrantCallDropped ==
    [][ /\ Len(tasks') <= 1
        /\ isFetching' <=> (tasks' # << >>)
        /\ (isFetching /\ (FetchBooks \/ FetchSeries \/ IncrementPage)) =>
                /\ Requests(tasks') = Requests(tasks)
                /\ allBooks' = allBooks
                /\ fetchedPages' = fetchedPages
        /\ (isFetching /\ ResetStep) =>
                /\ Requests(tasks') = Requests(tasks)
                /\ allBooks' = << >>
                /\ fetchedPages' = << >>
        /\ (tasks # << >> /\ tasks' # << >>) => tasks'[1].caller = tasks[1].caller
      ]_vars

\* An incrementPage was made while a cycle was in flight and its fetchBooks
\* was dropped: the page it moved to is neither fetched nor about to be.
C1_Witness ==
    /\ isFetching
    /\ Len(tasks) = 1
    /\ tasks[1].kind = "books"
    /\ tasks[1].dirty /\ ~tasks[1].stale
    /\ incrementPages
    /\ ~Contains(fetchedPages, page)
    /\ ~Contains(tasks[1].rest, page)

\* C2: after a resetAll, changePage or toggleSortOrder made while a fetchBooks
\* cycle is in flight, the response of the request issued before the reset
\* adds no book to allBooks and no page to allBookPages.
C2_StaleResponseIgnored ==
    [][ (\E i \in DOMAIN tasks : tasks[i].stale) =>
            /\ Len(allBooks') <= Len(allBooks)
            /\ Len(allBookPages') <= Len(allBookPages)
      ]_vars

\* C3: no two books of allBooks have the same (id, provider id) pair.
C3_UniqueBooks ==
    \A i, j \in DOMAIN allBooks :
        (allBooks[i].id = allBooks[j].id /\ allBooks[i].provider = allBooks[j].provider)
            => i = j

\* C4: fetchedPages holds no page twice, and every step that is not a reset
\* leaves fetchedPages as it is or appends to it.
C4_FetchedPagesGrow ==
    [][ /\ NoDuplicates(fetchedPages')
        /\ ResetStep \/ IsPrefix(fetchedPages, fetchedPages')
      ]_vars

\* C5: no getBooks request is in flight while the orchestrator holds more than
\* MAX_SELECTED_SERIES series and book ids.
C5_NoRequestOverCeiling ==
    \A i \in DOMAIN tasks :
        tasks[i].pc = "getBooks" => TotalIds <= MAX_SELECTED_SERIES

\* C6: initialize with more than MAX_SELECTED_SERIES ids reports one error and
\* starts neither fetchSeries nor fetchBooks; with 1..MAX_SELECTED_SERIES ids it
\* starts fetchSeries, and when getSeries settles fetchSeries is over and
\* fetchBooks requests the first page to fetch.
C6_InitializeCeiling ==
    [][ /\ Initialize =>
            LET total == CountIds(searchParams.series) + CountIds(searchParams.books)
            IN  /\ total > MAX_SELECTED_SERIES =>
                    /\ reported' = 1
                    /\ tasks' = << >> /\ ~isFetching'
                    /\ fetchedPages' = << >> /\ allSeries' = << >>
                /\ total \in 1..MAX_SELECTED_SERIES =>
                    /\ reported' = 0
                    /\ tasks' = << SeriesTask("initialize") >> /\ isFetching'
        /\ ( /\ tasks # << >>
             /\ tasks[1].kind = "series" /\ tasks[1].caller = "initialize"
             /\ Requests(tasks') # Requests(tasks) ) =>
                /\ Len(tasks') = 1
                /\ tasks'[1].kind = "books" /\ tasks'[1].pc = "getBooks"
                /\ tasks'[1].caller = "initialize"
                /\ tasks'[1].cur = (IF incrementPages THEN 1 ELSE page)
                /\ fetchedPages' = << tasks'[1].cur >>
      ]_vars

\* initialize was halted by the ceiling: one error, nothing fetched.
C6_Witness ==
    /\ mounted
    /\ TotalIds > MAX_SELECTED_SERIES
    /\ reported = 1
    /\ ~isFetching /\ tasks = << >>
    /\ fetchedPages = << >> /\ allSeries = << >> /\ allBooks = << >>

\* C7: every selected book is a book of allBooks.
C7_SelectionWithinBooks ==
    \A i \in DOMAIN selectedBooks : FindIndex(allBooks, selectedBooks[i]) > 0

\* A book is selected while a cycle that a reset has met is still in flight:
\* the book came with the response of a page that fetchedPages no longer lists.
C7_Witness ==
    /\ selectedBooks # << >>
    /\ isFetching
    /\ Len(tasks) = 1 /\ tasks[1].dirty
    /\ ~Contains(fetchedPages, 1)
    /\ allBooks # << >>

\* The end of a cycle that the caller started while idle and that no other
\* operation on the paging has met
Completes(caller) ==
    /\ tasks # << >>
    /\ tasks[1].caller = caller
    /\ ~tasks[1].dirty
    /\ tasks' = << >>

C9_ChangePage ==
    [][ /\ \A p \in 1..MaxPage : ChangePage(p) =>
            IF p = page THEN UNCHANGED vars
            ELSE /\ page' = p /\ ~incrementPages'
                 /\ allBooks' = << >> /\ selectedBooks' = << >> /\ allBookPages' = << >>
                 /\ (~isFetching /\ Requested # {}) =>
                        /\ fetchedPages' = << p >>
                        /\ tasks' = << BooksTask(p, << >>, sortOrder, "changePage") >>
        /\ Completes("changePage") =>
            /\ ~incrementPages /\ page' = tasks[1].cur
            /\ fetchedPages' = << page >>
            /\ \A k \in DOMAIN allBooks' : BookOfPage(allBooks'[k], sortOrder, page)
            /\ selectedBooks' = << >>
      ]_vars

\* A changePage to page 2, made while books were selected, has its books and
\* is about to complete.
C9_Witness ==
    /\ Len(tasks) = 1
    /\ tasks[1].caller = "changePage" /\ ~tasks[1].dirty
    /\ tasks[1].pc = "getInfo" /\ tasks[1].newBooks # << >>
    /\ page = 2 /\ ~incrementPages
    /\ allBooks = << >> /\ selectedBooks = << >>

\* C10: incrementPage changes nothing when page >= maxPage; else it adds one
\* to page, sets incrementPages and runs fetchBooks for pages not yet fetched;
\* the call and every step of its cycle keep the books of allBooks and the
\* selection, and new books are appended.
C10_IncrementPageAdditive ==
    [][ /\ IncrementPage =>
            IF page >= maxPage THEN UNCHANGED vars
            ELSE /\ page' = page + 1 /\ incrementPages'
                 /\ allBooks' = allBooks /\ selectedBooks' = selectedBooks
                 /\ allBookPages' = allBookPages
                 /\ IsPrefix(fetchedPages, fetchedPages')
                 /\ (~isFetching /\ tasks' # << >>) =>
                        /\ tasks'[1].caller = "incrementPage"
                        /\ ~Contains(fetchedPages, tasks'[1].cur)
        /\ ( /\ tasks # << >> /\ tasks[1].caller = "incrementPage"
             /\ Requests(tasks') # Requests(tasks) ) =>
                /\ IsPrefix(allBooks, allBooks')
                /\ selectedBooks' = selectedBooks
      ]_vars

\* An incrementPage made with a book selected has the books of the next page
\* and is about to append them.
C10_Witness ==
    /\ Len(tasks) = 1
    /\ tasks[1].caller = "incrementPage"
    /\ tasks[1].pc = "getInfo" /\ tasks[1].newBooks # << >>
    /\ page = 2 /\ incrementPages
    /\ allBooks # << >> /\ selectedBooks # << >>

\* C11: maxPage never decreases: no step lowers it, and a books response
\* leaves it at the largest of its previous value and the page counts of
\* the requests of that call that succeeded.
C11_MaxPageMonotone ==
    [][ /\ maxPage' >= maxPage
        /\ \A i \in DOMAIN tasks : \A ok \in SUBSET Requested : \A throws \in BOOLEAN :
              BooksResponse(i, ok, throws) =>
                LET counts == {maxPage} \cup {MaxPage : p \in ok}
                IN  /\ maxPage' \in counts
                    /\ \A n \in counts : maxPage' >= n
      ]_vars

\* maxPage was raised, and after a reset a books response that added no book
\* has left it raised
C11_Witness ==
    /\ MaxPage > 1 /\ maxPage = MaxPage
    /\ mounted /\ ~isFetching /\ tasks = << >>
    /\ fetchedPages # << >> /\ allBooks = << >> /\ reported > 0

\* C12: in getBooks and getBookPages no failing request (rejected fetch,
\* unparsable body, error field) makes the call reject: once every request has
\* settled the call returns, and what it returns holds the data of every
\* request that succeeded and nothing else.
C12_FailuresConfined ==
    (call.op \in {"getBooks", "getBookPages"} /\ call.status # "input") =>
        /\ call.status # "rejected"
        /\ call.status = "fulfilled" <=>
              /\ call.pending = {}
              /\ {d[1] : d \in call.done} =
                    IF call.op = "getBooks"
                    THEN BooksRequests("series", call.input.series)
                            \cup BooksRequests("book", call.input.book)
                    ELSE PagesRequests(call.input)
        /\ call.status = "fulfilled" =>
              LET good == {d[1] : d \in {e \in call.done : e[2] = "ok"}}
              IN  /\ \A r \in good :
                        /\ r.p \in DOMAIN call.data
                        /\ \A item \in Range(Answer(r, call.input).data) :
                                Contains(call.data[r.p], item)
                  /\ \A p \in DOMAIN call.data : \A j \in DOMAIN call.data[p] :
                        \E r \in good : /\ r.p = p
                                        /\ Contains(Answer(r, call.input).data,
                                                    call.data[p][j])
                  /\ \A p \in DOMAIN call.data : NoDuplicates(call.data[p])

\* A getBooks call has returned with a request that succeeded, a request
\* whose fetch was rejected and a request that was answered badly
C12_Witness ==
    /\ call.op = "getBooks" /\ call.status = "fulfilled"
    /\ \E d \in call.done : d[2] = "ok"
    /\ \E d \in call.done : d[2] = "rejected"
    /\ \E d \in call.done : d[2] \in {"unparsable", "error"}
    /\ call.count > 0 /\ Len(call.errors) = 2

\* C13: the error list of a getBooks call that has returned holds exactly one
\* entry for each provider that had a failing request, and none for the
\* others.
C13_OneErrorPerFailedProvider ==
    (call.op = "getBooks" /\ call.status = "fulfilled") =>
        \A p \in ProviderSet :
            Cardinality({i \in DOMAIN call.errors : call.errors[i] = p}) =
                IF \E d \in call.done : d[1].p = p /\ d[2] # "ok" THEN 1 ELSE 0

\* C14: whatever the order in which the chunk requests complete, the array
\* getCovers returns is as long as the url list, and its entry i holds the
\* bytes of the archive entry named by the 1-based position of urls[i] within
\* its chunk of at most 6 urls, and is undefined when the archive has no such
\* entry.
C14_CoversByPosition ==
    (call.op = "getCovers" /\ call.status = "fulfilled") =>
        /\ Len(call.allImages) = Len(call.urls)
        /\ \A i \in DOMAIN call.urls :
              LET first == 6 * ((i - 1) \div 6) + 1
                  last == IF first + 5 < Len(call.urls) THEN first + 5 ELSE Len(call.urls)
                  entries == Archive(SubSeq(call.urls, first, last), call.missing)
                  position == i - first + 1
              IN  call.allImages[i] = IF position \in DOMAIN entries
                                      THEN entries[position]
                                      ELSE Undefined

\* getCovers has returned for three chunks, the last one short, with an
\* entry missing in the first and in the last chunk, and the images were saved
C14_Witness ==
    /\ call.op = "getCovers" /\ call.status = "fulfilled"
    /\ Len(call.urls) = 2 * zipMaxCount + 1
    /\ call.missing = {UrlOf(2), UrlOf(2 * zipMaxCount + 1)}
    /\ call.allImages[2] = Undefined
    /\ call.allImages[zipMaxCount + 1] = ImageOf(UrlOf(zipMaxCount + 1))
    /\ call.saved # {}

\* C15: a cover chunk that fails during downloadSelectedCovers is confined
\* to that chunk: once every chunk has settled, the covers of the chunks that
\* were answered have been packaged and saved.
C15_FailedChunkConfined ==
    (call.op = "getCovers" /\ call.status # "input" /\ call.pending = {}) =>
        \A d \in call.done :
            d[2] = "ok" =>
                LET chunk == chopArray(call.urls, zipMaxCount)[d[1]]
                IN  \A j \in DOMAIN chunk :
                        chunk[j] \notin call.missing => ImageOf(chunk[j]) \in call.saved

\* C16: when the getInfo calls of a page have settled, every book whose
\* getInfo failed is reported unless its provider has ignoreErrors, and is not
\* appended to allBooks, whatever its provider; the measured books are
\* appended.
C16_UnmeasuredBookDropped ==
    [][ \A i \in DOMAIN tasks : \A failed \in SUBSET DOMAIN tasks[i].newBooks :
          InfoResponse(i, failed) =>
            LET bs == tasks[i].newBooks
            IN  /\ reported' = Cardinality({k \in failed : ~IgnoreErrors(bs[k].provider)})
                /\ Len(allBooks') = Len(allBooks) + Len(bs) - Cardinality(failed)
                /\ \A k \in failed :
                      \A j \in (Len(allBooks) + 1)..Len(allBooks') :
                        ~(allBooks'[j].id = bs[k].id /\ allBooks'[j].provider = bs[k].provider)
      ]_vars

\* The indices of the books of allBooks, grouped by volume name
VolumeGroups ==
    { {k \in DOMAIN allBooks : VolumeName(allBooks[k]) = v} :
        v \in {VolumeName(allBooks[k]) : k \in DOMAIN allBooks} }

\* C17: with automatic picking enabled the displayed books are books of
\* allBooks in their order, exactly one of every volume name group, so their
\* number is the number of distinct volume names.
C17_OneBookPerVolume ==
    automaticCoverQualityEnabled =>
        /\ Len(filteredBooks) = Cardinality(VolumeGroups)
        /\ \A g \in VolumeGroups :
              Cardinality({j \in DOMAIN filteredBooks :
                            \E k \in g : VolumeName(filteredBooks[j]) = VolumeName(allBooks[k])}) = 1
        /\ \E keep \in SUBSET DOMAIN allBooks :
              filteredBooks = KeepIndices(allBooks, keep, 1)

\* Three books in two volume groups, two of them equal in every respect, were
\* picked from, and the two picked books were selected
C17_Witness ==
    /\ automaticCoverQualityEnabled
    /\ Len(allBooks) = 3 /\ Cardinality(VolumeGroups) = 2
    /\ \E i, j \in DOMAIN allBooks : i # j /\ allBooks[i] = allBooks[j]
    /\ Len(selectedBooks) = 2 /\ selectedBooks = filteredBooks

\* The order of C18: x comes before y
Precedes(x, y) ==
    IF selectedBookPage > 0 /\ SupportsBookPages(x.provider) # SupportsBookPages(y.provider)
    THEN SupportsBookPages(x.provider)
    ELSE IF x.coverQualityScore # y.coverQualityScore
    THEN x.coverQualityScore > y.coverQualityScore
    ELSE \E i, j \in DOMAIN providers :
            i < j /\ providers[i] = x.provider /\ providers[j] = y.provider

C19_ScoreMatchesFields ==
    (cover.id # 0 /\ cover.coverQualityScore # NoScore) =>
        LET root == CHOOSE r \in 0..10000 :
                        r * r <= cover.coverWidth * cover.coverHeight
                        /\ cover.coverWidth * cover.coverHeight < (r + 1) * (r + 1)
            jpeg == cover.coverFormat \in {"jpeg", "JPEG", "jpg"}
            format == IF cover.coverFormat = "png" THEN 9
                      ELSE IF jpeg THEN 6
                      ELSE IF cover.coverFormat = "webp" THEN 3 ELSE 0
            chroma == IF ~jpeg \/ cover.chromaSubsampling \in {"", "4:4:4"} THEN 8
                      ELSE IF cover.chromaSubsampling = "4:2:2" THEN 6 ELSE 4
            total == (root \div 20) + format + chroma
        IN  cover.coverQualityScore = (total \div 2) + (total % 2)

\* A measured book was cropped: its width and its score changed
C19_Witness ==
    /\ cover.id # 0 /\ cover.shown
    /\ cover.coverIsCropped = "true"
    /\ cover.coverFormat = "JPEG" /\ cover.chromaSubsampling = "4:2:0"
    /\ cover.originalWidth = 2100 /\ cover.coverWidth = 2100 - 211
    /\ cover.coverQualityScore
            # getCoverQualityScore([cover EXCEPT !.coverWidth = cover.originalWidth])

\* C20: for a book that is not cropped and that a crop applies to,
\* toggleCropCovers with crop and then without crop gives back the cover url,
\* the thumbnail url and the width as they were, and leaves originalCover,
\* originalThumbnail and originalWidth undefined.
C20_CropRoundTrip ==
    (/\ cover.id # 0 /\ cover.shown
     /\ cover.coverIsCropped # "true"
     /\ cover.coverWidth # 0 /\ cover.coverHeight # 0
     /\ calculateCropAmount(cover.coverWidth, cover.coverHeight) # 0) =>
        LET cropped == toggleCropCovers(cover, TRUE)
            back == toggleCropCovers(cropped, FALSE)
        IN  /\ cropped.coverIsCropped = "true"
            /\ cropped.cover # cover.cover
            /\ cropped.thumbnail # cover.thumbnail
            /\ cropped.coverWidth < cover.coverWidth
            /\ back.cover = cover.cover
            /\ back.thumbnail = cover.thumbnail
            /\ back.coverWidth = cover.coverWidth
            /\ back.originalCover = NoUrl
            /\ back.originalThumbnail = NoUrl
            /\ back.originalWidth = 0

\* A book that a crop applies to was uncropped: it has its catalog cover and
\* thumbnail and no originals
C20_Witness ==
    /\ cover.id # 0 /\ cover.shown
    /\ cover.coverIsCropped = "false"
    /\ calculateCropAmount(cover.coverWidth, cover.coverHeight) = 120
    /\ cover.cover = NewCover.cover /\ cover.thumbnail = NewCover.thumbnail
    /\ cover.originalCover = NoUrl /\ cover.originalWidth = 0

\* C21: toggleCropCovers(books, false) on a book that is not cropped changes
\* no field of the book: cover, thumbnail, coverWidth, whether it is cropped,
\* coverQualityScore and the three originals stay as they are, also for a book
\* without metadata and score.
C21_UncropOfUncroppedIsNoOp ==
    [][ (ToggleCropCovers(FALSE) /\ cover.coverIsCropped # "true") =>
            /\ cover'.cover = cover.cover
            /\ cover'.thumbnail = cover.thumbnail
            /\ cover'.coverWidth = cover.coverWidth
            /\ cover'.coverIsCropped # "true"
            /\ cover'.coverQualityScore = cover.coverQualityScore
            /\ cover'.originalCover = cover.originalCover
            /\ cover'.originalThumbnail = cover.originalThumbnail
            /\ cover'.originalWidth = cover.originalWidth
      ]_vars

\* C22: for a cropped book, toggleCropCovers without crop and then with crop
\* gives a cropped book with the same quality score and the same width.
C22_UncropCropRoundTrip ==
    (cover.id # 0 /\ cover.shown /\ cover.coverIsCropped = "true") =>
        LET plain == toggleCropCovers(cover, FALSE)
            again == toggleCropCovers(plain, TRUE)
        IN  /\ plain.coverIsCropped = "false"
            /\ plain.coverWidth > cover.coverWidth
            /\ again.coverIsCropped = "true"
            /\ again.coverQualityScore = cover.coverQualityScore
            /\ again.coverWidth = cover.coverWidth

\* A book was cropped, uncropped and cropped again by a negative amount
C22_Witness ==
    /\ cover.id # 0 /\ cover.shown
    /\ cover.coverIsCropped = "true"
    /\ cover.originalWidth = 1600 /\ cover.coverWidth = 1600 - 224
    /\ cover.coverFormat = "png"

C24_PackagingByResultCount ==
    (call.op = "pack" /\ call.outcome = "saved") =>
        LET eligible == {i \in DOMAIN call.books : call.books[i].bytes = "image"}
            n == Cardinality(eligible)
        IN  /\ n = 0 => call.saved = << >>
            /\ n = 1 => /\ Len(call.saved) = 1
                        /\ call.saved[1].kind = "file"
                        /\ {call.saved[1].entries[k] : k \in DOMAIN call.saved[1].entries}
                              = eligible
            /\ n >= 2 => /\ Len(call.saved) = 1
                         /\ call.saved[1].kind = "zip"
                         /\ Cardinality(DOMAIN call.saved[1].entries) = n
                         /\ {call.saved[1].entries[k] : k \in DOMAIN call.saved[1].entries}
                               = eligible

\* C25: when a run of downloadSelectedCovers is over (it has saved, found
\* nothing to save, or reported its failure, and no request of it is left in
\* flight) downloadProgress is undefined, so that a later run can start.
C25_ProgressClearedAfterRun ==
    (call.op = "getCovers" /\ call.status \in {"fulfilled", "rejected"}
        /\ call.pending = {}) => call.downloadProgress = << >>

\* The rows of the crop decision table that a width and height match, in the
\* table's order; the aspect floor(100 * width / height) / 100 is in
\* [0.73, 0.80) exactly when 73 * height <= 100 * width < 80 * height
CropRows(width, height) ==
    LET tall == 73 * height <= 100 * width /\ 100 * width < 80 * height
    IN  SelectSeq(<< [amount |-> 120, match |-> width \in 880..964 /\ height = 1200],
                     [amount |-> 30, match |-> width \in 220..241 /\ height = 300],
                     [amount |-> -355, match |-> height > 4000 /\ tall],
                     [amount |-> -211, match |-> width > 2000 /\ height > 2000 /\ tall],
                     [amount |-> -224, match |-> width < 2000 /\ height > 2000 /\ tall] >>,
                  LAMBDA row : row.match)

\* C26: cropping a measured, uncropped book follows the decision table, first
\* matching row wins: without a matching row the book is left as it is; with
\* one the book is cropped by that row's amount, a positive amount as the
\* width kept (880..964 x 1200: +120, 220..241 x 300: +30), a negative one as
\* the offset cut (-355, -211, -224); e.g. 900x1200 is cropped by +120 and
\* 2500x3000 and 1800x2500 are not cropped.
C26_CropDecisionTable ==
    [][ (ToggleCropCovers(TRUE) /\ cover.coverIsCropped # "true"
            /\ cover.coverWidth > 0 /\ cover.coverHeight > 0) =>
          LET width == cover.coverWidth
              rows == CropRows(width, cover.coverHeight)
          IN  /\ << width, cover.coverHeight >> \in {<< 2500, 3000 >>, << 1800, 2500 >>}
                    => rows = << >>
              /\ << width, cover.coverHeight >> = << 900, 1200 >> => rows[1].amount = 120
              /\ IF rows = << >> THEN cover' = cover
                 ELSE /\ cover'.coverIsCropped = "true"
                      /\ cover'.coverWidth = width - Abs(rows[1].amount)
                      /\ rows[1].amount > 0 =>
                            cover'.cover.cw = width - rows[1].amount /\ cover'.cover.cx = 0
                      /\ rows[1].amount < 0 =>
                            cover'.cover.cx = -rows[1].amount /\ cover'.cover.cw = 0 ]_vars

\* A 3000x4100 cover, which matches the rows -355 and -211, was cropped by 355
C26_Witness ==
    /\ cover.id # 0 /\ cover.coverIsCropped = "true"
    /\ cover.originalWidth = 3000 /\ cover.coverHeight = 4100
    /\ cover.cover.cx = 355 /\ cover.coverWidth = 2645

\* C27: the quality score of a measured book is
\* round((floor(sqrt(width * height) / 20) + formatScore + chromaScore) / 2)
\* with formatScore png 9, jpeg/jpg 6, webp 3, other 0 and chromaScore 8 for
\* formats other than jpeg/jpg and, for jpeg/jpg, 4:4:4 -> 8, 4:2:2 -> 6,
\* 4:2:0 -> 4 and 4 for every other chroma value, an absent one included;
\* a png of 1000x1000 scores 34.
C27_QualityScoreFormula ==
    (cover.id # 0 /\ cover.shown /\ cover.coverFormat # "") =>
        LET format == IF cover.coverFormat = "JPEG" THEN "jpeg" ELSE cover.coverFormat
            area == cover.coverWidth * cover.coverHeight
            resolutionScore == CHOOSE k \in 0..500 :
                                  (20 * k) * (20 * k) <= area
                                  /\ area < (20 * (k + 1)) * (20 * (k + 1))
            formatScore == CASE format = "png" -> 9
                             [] format \in {"jpeg", "jpg"} -> 6
                             [] format = "webp" -> 3
                             [] OTHER -> 0
            chromaScore == CASE format \notin {"jpeg", "jpg"} -> 8
                             [] cover.chromaSubsampling = "4:4:4" -> 8
                             [] cover.chromaSubsampling = "4:2:2" -> 6
                             [] cover.chromaSubsampling = "4:2:0" -> 4
                             [] OTHER -> 4
            total == resolutionScore + formatScore + chromaScore
        IN  /\ cover.coverQualityScore = (IF total % 2 = 0 THEN total \div 2
                                          ELSE (total + 1) \div 2)
            /\ (format = "png" /\ cover.coverWidth = 1000 /\ cover.coverHeight = 1000)
                  => cover.coverQualityScore = 34

\* The captured number of a match of one of the four patterns
MatchNumber(match) ==
    LET digits == {i \in DOMAIN match : IsDigit(match[i])}
        from == CHOOSE i \in digits : \A j \in digits : i <= j
        to == CHOOSE i \in digits : \A j \in digits : j <= i
    IN  SubSeq(match, from, to)

\* C28: getVolumeNumber takes the first of the four patterns (marker,
\* parenthesised, space-delimited, any number) that matches the title at all
\* and returns the number of the last match of that pattern, for the marker
\* pattern too, without its leading zeros.
C28_LastMatchOfFirstPattern ==
    (call.op = "title" /\ call.status = "book") =>
        LET s == Translated(Separated(call.title))
            matching == {p \in 1..4 : MatchAll(p, s, 1) # << >>}
            p == CHOOSE q \in matching : \A r \in matching : q <= r
            matches == MatchAll(p, s, 1)
        IN  matching # {} =>
                call.volumeNumber = Unpadded(MatchNumber(matches[Len(matches)]))

\* The title with every full-width digit written as the ASCII digit
AsciiDigits(title) ==
    [i \in DOMAIN title |->
        CASE title[i] = "FW0" -> "0" [] title[i] = "FW1" -> "1"
          [] title[i] = "FW2" -> "2" [] title[i] = "FW3" -> "3"
          [] title[i] = "FW4" -> "4" [] title[i] = "FW5" -> "5"
          [] title[i] = "FW6" -> "6" [] title[i] = "FW7" -> "7"
          [] title[i] = "FW8" -> "8" [] title[i] = "FW9" -> "9"
          [] OTHER -> title[i]]

\* C29: the volume number of a title with full-width digits is the volume
\* number of the title with the equivalent ASCII digits, and a volume number
\* never starts with a zero that is followed by another digit: 'Volume 12'
\* gives '12' and 'Volume 007' gives '7'.
C29_FullWidthAndLeadingZeros ==
    (call.op = "title" /\ call.status = "book") =>
        LET ascii == getVolumeNumber(AsciiDigits(call.title))
        IN  /\ call.volumeNumber = (IF ascii = << >> THEN << "0" >> ELSE ascii)
            /\ ~(Len(call.volumeNumber) >= 2 /\ call.volumeNumber[1] = "0"
                    /\ IsDigit(call.volumeNumber[2]))
            /\ \A i \in DOMAIN call.volumeNumber :
                    IsDigit(call.volumeNumber[i]) \/ call.volumeNumber[i] = "."
            /\ call.title = << "Volume", " ", "1", "2" >>
                    => call.volumeNumber = << "1", "2" >>
            /\ call.title = << "Volume", " ", "0", "0", "7" >>
                    => call.volumeNumber = << "7" >>

\* The title 'vol.' followed by a full-width 0 and a full-width 2 was given
\* the volume number 2
C29_Witness ==
    /\ call.op = "title" /\ call.status = "book"
    /\ call.title = << "vol", ".", "FW0", "FW2" >>
    /\ call.volumeNumber = << "2" >>

\* C30: the volume name of a book is '<prefix> <number>' when its title has
\* a number, the prefix being the provider's volumePrefix when it has one,
\* else 'Chapter' when the title contains 'Chapter' in either case or a '#'
\* followed by a digit, else 'Volume'; a title without a number is its own
\* volume name, without the spaces at its ends.
C30_VolumeName ==
    (call.op = "title" /\ call.status = "book") =>
        LET title == call.title
            hasNumber == \E i \in DOMAIN title : IsDigit(AsciiDigits(title)[i])
            prefix == IF call.forcePrefix # "" THEN call.forcePrefix
                      ELSE IF \E i \in DOMAIN title :
                                \/ title[i] \in {"Chapter", "chapter"}
                                \/ i < Len(title) /\ title[i] = "#" /\ IsDigit(title[i + 1])
                      THEN "Chapter"
                      ELSE "Volume"
            inner == {i \in DOMAIN title : title[i] # " "}
        IN  IF hasNumber
            THEN call.volumeName = << prefix, " " >> \o call.volumeNumber
            ELSE IF inner = {} THEN call.volumeName = << >>
            ELSE \E a, b \in inner :
                    /\ \A i \in inner : a <= i /\ i <= b
                    /\ call.volumeName = SubSeq(title, a, b)

\* The title 'chapter 2' of a provider without volumePrefix was named
\* 'Chapter 2'
C30_Witness ==
    /\ call.op = "title" /\ call.status = "book"
    /\ call.title = << "chapter", " ", "2" >> /\ call.forcePrefix = ""
    /\ call.volumeName = << "Chapter", " ", "2" >>

\* C31: when a crop amount a applies to an uncropped book of width W, the
\* cropped book has width W - |a|; the cover url carries the crop width W - a
\* for a positive a and the left offset |a| for a negative a; the thumbnail
\* of width 336 is cropped by t = round(|a| * 336 / W), as crop width 336 - t
\* for a positive a and as left offset t for a negative a.
C31_CropGeometry ==
    [][ (cover.id # 0 /\ cover.coverIsCropped # "true" /\ cover'.coverIsCropped = "true") =>
          LET W == IF cover.coverWidth > 0 THEN cover.coverWidth ELSE cover'.originalWidth
              a == CropRows(W, cover'.coverHeight)[1].amount
              abs == IF a < 0 THEN -a ELSE a
              t == CHOOSE n \in 0..336 :
                      2 * W * n - W <= 2 * abs * 336 /\ 2 * abs * 336 < 2 * W * n + W
          IN  /\ cover'.coverWidth = W - abs
              /\ cover'.cover.width = W /\ cover'.thumbnail.width = 336
              /\ a > 0 => /\ cover'.cover.cw = W - a /\ cover'.cover.cx = 0
                          /\ cover'.thumbnail.cw = 336 - t /\ cover'.thumbnail.cx = 0
              /\ a < 0 => /\ cover'.cover.cx = abs /\ cover'.cover.cw = 0
                          /\ cover'.thumbnail.cx = t /\ cover'.thumbnail.cw = 0 ]_vars

\* A 900x1200 cover is cropped to 780 and its thumbnail to 336 - 45 = 291
C31_Witness ==
    /\ cover.id # 0 /\ cover.coverIsCropped = "true"
    /\ cover.originalWidth = 900 /\ cover.coverWidth = 780
    /\ cover.cover.cw = 780 /\ cover.thumbnail.cw = 291

\* C32: every fetch cycle ends idle: whenever isFetching is true and every
\* network call eventually settles, isFetching eventually becomes false
\* again, whatever the requests answer and also when building the books of a
\* response throws.
C32_FetchingEnds == isFetching ~> ~isFetching

\* A cycle that requested a page has ended idle with an error reported and
\* no book fetched
C32_Witness ==
    /\ mounted /\ ~isFetching /\ tasks = << >>
    /\ fetchedPages # << >> /\ allBooks = << >> /\ reported > 0

\* C33: when a fetchBooks cycle ends after the last page of its list and
\* leaves no cycle in flight, with ids to fetch, the current page is in
\* fetchedPages, and in increment mode every page 1..page is, whatever was
\* invoked while the cycle was in flight.
C33_CurrentPageFetched ==
    [][ (isFetching /\ ~isFetching' /\ tasks' = << >> /\ TotalIds > 0
            /\ \E i \in DOMAIN tasks : tasks[i].kind = "books" /\ tasks[i].rest = << >>) =>
          /\ Contains(fetchedPages', page')
          /\ incrementPages' => \A g \in 1..page' : Contains(fetchedPages', g) ]_vars

C35_AllSelectedMeansAll ==
    isAllSelected <=>
        \A i \in DOMAIN filteredBooks :
            \E j \in DOMAIN selectedBooks :
                /\ selectedBooks[j].id = filteredBooks[i].id
                /\ selectedBooks[j].provider = filteredBooks[i].provider

\* C36: a book is cropped exactly when its crop record is present:
\* coverIsCropped is true iff originalCover, originalThumbnail and
\* originalWidth are all set (and none of them is set otherwise); then
\* coverWidth is originalWidth less the absolute crop amount for
\* (originalWidth, coverHeight), and the recorded originals are uncropped
\* urls, so that the book carries one crop and not a crop of a crop.
C36_CropRecord ==
    LET recorded == /\ cover.originalCover # NoUrl
                    /\ cover.originalThumbnail # NoUrl
                    /\ cover.originalWidth # 0
        partly == \/ cover.originalCover # NoUrl
                  \/ cover.originalThumbnail # NoUrl
                  \/ cover.originalWidth # 0
        amount == calculateCropAmount(cover.originalWidth, cover.coverHeight)
    IN  /\ (cover.coverIsCropped = "true") <=> recorded
        /\ partly => recorded
        /\ recorded =>
             /\ amount # 0
             /\ cover.coverWidth = cover.originalWidth - Abs(amount)
             /\ cover.originalCover.cw = 0 /\ cover.originalCover.cx = 0
             /\ cover.originalThumbnail.cw = 0 /\ cover.originalThumbnail.cx = 0
             /\ (cover.cover.cw # 0) # (cover.cover.cx # 0)

C36_Witness ==
    /\ cover.id # 0 /\ cover.shown
    /\ cover.coverIsCropped = "true"
    /\ cover.originalWidth = 2190 /\ cover.coverHeight = 3000
    /\ cover.originalCover = NewCover.cover
    /\ cover.coverWidth < 2190

\* C37: selectedBooks never holds two entries with the same (id, provider),
\* whatever toggleBook, shiftSelect and toggleAllBooks did before; and on the
\* selection of every reachable state toggleBook(b, true) leaves b selected
\* exactly once and toggleBook(b, false) leaves b unselected, both without
\* changing any other entry.
C37_SelectionWithoutDuplicates ==
    LET Same(x, b) == x.id = b.id /\ x.provider = b.provider
        Times(s, b) == Cardinality({i \in DOMAIN s : Same(s[i], b)})
        Others(s, b) == SelectSeq(s, LAMBDA x : ~Same(x, b))
    IN  /\ \A i, j \in DOMAIN selectedBooks :
              i # j => ~Same(selectedBooks[i], selectedBooks[j])
        /\ \A k \in DOMAIN allBooks :
              LET b == allBooks[k]
                  on == toggleBook(selectedBooks, b, "true")
                  off == toggleBook(selectedBooks, b, "false")
              IN  /\ Times(on, b) = 1
                  /\ Others(on, b) = Others(selectedBooks, b)
                  /\ Times(off, b) = 0
                  /\ Others(off, b) = Others(selectedBooks, b)

----------------------------------------------------------------------------
(* The search page: the series selected among the results of a search *)

\* const maxSelectedSeries of the search page
maxSelectedSeries == 10

\* The titles of the results, and title.toLowerCase().trim()
SeriesTitles == {"Foo", "foo ", "Bar"}

Normal(title) == IF title = "Bar" THEN "bar" ELSE "foo"

\* The results a provider answers a search with: up to two series, the id of
\* each its position in the list
SeriesLists ==
    UNION { [1..n -> SeriesTitles] : n \in 0..2 }

SearchInputs ==
    { [ op |-> "search",
        searchResults |-> [p \in ProviderSet |->
                              [k \in DOMAIN lists[p] |-> [id |-> k, title |-> lists[p][k]]]],
        selectedSeries |-> [p \in ProviderSet |-> << >>],
        resultAutoMatchEnabled |-> TRUE ] : lists \in [ProviderSet -> SeriesLists] }

\* toggleSeries(providerId, series, force) on a selection; force is
\* "undefined", "true" or "false".  indexOf answers -1 for a series that is
\* not in the list, and splice(-1, 1) removes the last entry of the list.
toggleSeries(selected, providerId, series, force) ==
    LET list == selected[providerId]
        found == {i \in DOMAIN list : list[i] = series}
        seriesIndex == IF found = {} THEN -1
                       ELSE (CHOOSE i \in found : \A j \in found : i <= j) - 1
        selectedSeriesCount == SumOver([p \in ProviderSet |-> Len(selected[p])], ProviderSet)
        start == IF seriesIndex < 0 THEN Max(Len(list) + seriesIndex, 0) ELSE seriesIndex
    IN  IF seriesIndex = -1 /\ force # "false"
        THEN (IF selectedSeriesCount < maxSelectedSeries
              THEN [selected EXCEPT ![providerId] = Append(list, series)]
              ELSE selected)
        ELSE IF force # "true"
        THEN [selected EXCEPT ![providerId] = RemoveAt(list, start + 1)]
        ELSE selected

\* matchingSeries.forEach((s) => toggleSeries(pId, s, force)) on the results
\* of provider pId whose title matches
RECURSIVE ToggleMatching(_, _, _, _, _)
ToggleMatching(selected, pId, seriesList, title, force) ==
    IF seriesList = << >> THEN selected
    ELSE ToggleMatching(
            IF Normal(Head(seriesList).title) = Normal(title)
            THEN toggleSeries(selected, pId, Head(seriesList), force)
            ELSE selected,
            pId, Tail(seriesList), title, force)

\* The card of a result is shown selected when the provider's selection has
\* a series of its id
IsSelected(selected, providerId, series) ==
    \E i \in DOMAIN selected[providerId] : selected[providerId][i].id = series.id

\* The click on the card of a result with automatic matching: every result of
\* every provider with the title of the clicked one is toggled
AutoMatchClick(c, providerId, series) ==
    LET force == IF IsSelected(c.selectedSeries, providerId, series) THEN "false" ELSE "true"
        first == ToggleMatching(c.selectedSeries, ProviderIds[1],
                                c.searchResults[ProviderIds[1]], series.title, force)
    IN  ToggleMatching(first, ProviderIds[2], c.searchResults[ProviderIds[2]],
                       series.title, force)

\* onclick of the card of result k of a provider
SeriesClick(providerId, k) ==
    /\ call.op = "search"
    /\ k \in DOMAIN call.searchResults[providerId]
    /\ LET series == call.searchResults[providerId][k]
       IN  call' = [call EXCEPT !.selectedSeries =
                       IF call.resultAutoMatchEnabled
                       THEN AutoMatchClick(call, providerId, series)
                       ELSE toggleSeries(@, providerId, series, "undefined")]
    /\ UNCHANGED << cover, searchParams, mounted, loading, reported, isFetching,
                    allSeriesIds, allBookIds, sortOrder,
                    automaticCoverQualityEnabled, page, maxPage, incrementPages,
                    fetchedPages, allBooks, allSeries, selectedBooks,
                    lastToggledBook, providers, selectedProviders, allBookPages,
                    selectedBookPage, tasks >>

\* The "Automatically match results" checkbox
AutoMatchChange ==
    /\ call.op = "search"
    /\ call' = [call EXCEPT !.resultAutoMatchEnabled = ~@]
    /\ UNCHANGED << cover, searchParams, mounted, loading, reported, isFetching,
                    allSeriesIds, allBookIds, sortOrder,
                    automaticCoverQualityEnabled, page, maxPage, incrementPages,
                    fetchedPages, allBooks, allSeries, selectedBooks,
                    lastToggledBook, providers, selectedProviders, allBookPages,
                    selectedBookPage, tasks >>

\* The button that clears the selection, shown while a series is selected
ClearSeries ==
    /\ call.op = "search"
    /\ \E p \in ProviderSet : call.selectedSeries[p] # << >>
    /\ call' = [call EXCEPT !.selectedSeries = [p \in ProviderSet |-> << >>]]
    /\ UNCHANGED << cover, searchParams, mounted, loading, reported, isFetching,
                    allSeriesIds, allBookIds, sortOrder,
                    automaticCoverQualityEnabled, page, maxPage, incrementPages,
                    fetchedPages, allBooks, allSeries, selectedBooks,
                    lastToggledBook, providers, selectedProviders, allBookPages,
                    selectedBookPage, tasks >>

InitSeries ==
    /\ Detached
    /\ call \in SearchInputs
    /\ cover = NoCover

NextSeries ==
    \/ \E p \in ProviderSet : \E k \in 1..2 : SeriesClick(p, k)
    \/ AutoMatchChange
    \/ ClearSeries

\* The search page after a search
SpecSeries == InitSeries /\ [][NextSeries]_vars

\* C38: toggleSeries(provider, s, false) for a result s that is not in the
\* provider's selection leaves the selection unchanged; and a click with
\* automatic matching on a result that is shown selected, which deselects
\* the results of its title, removes no series of another title from the
\* selection of any provider.
C38_DeselectLeavesOthers ==
    call.op = "search" =>
        LET selected == call.selectedSeries IN
        \A p \in ProviderSet : \A k \in DOMAIN call.searchResults[p] :
            LET s == call.searchResults[p][k]
                after == AutoMatchClick(call, p, s)
            IN  /\ ~Contains(selected[p], s) =>
                       toggleSeries(selected, p, s, "false") = selected
                /\ (call.resultAutoMatchEnabled /\ IsSelected(selected, p, s)) =>
                       \A q \in ProviderSet : \A j \in DOMAIN selected[q] :
                           Normal(selected[q][j].title) # Normal(s.title) =>
                               Contains(after[q], selected[q][j])

----------------------------------------------------------------------------
(* The settings: load, save and isChanged, with the settings page *)

\* Two settings of the application: the theme (a select) and the automatic
\* matching of results (a toggle)
SettingIds == {"theme", "results-auto-match"}

SettingValues(id) ==
    IF id = "theme" THEN {"system", "light", "dark"} ELSE {"true", "false"}

defaultValue(id) == IF id = "theme" THEN "system" ELSE "true"

\* currentValue and storedValue of a setting that was constructed and never
\* loaded (undefined); the entry of an id the stored object does not have
NoValue == "undefined"

\* localStorage.getItem('settings'): null, or an object with a value for
\* some of the ids
Storages ==
    { [present |-> FALSE, data |-> [id \in SettingIds |-> NoValue]] }
    \cup
    { [present |-> TRUE, data |-> d] :
        d \in { f \in [SettingIds -> {"system", "light", "dark", "true", "false", NoValue}] :
                    \A id \in SettingIds : f[id] \in SettingValues(id) \cup {NoValue} } }

\* The settings as the module constructs them
Constructed(storage) ==
    [ op |-> "settings", last |-> "none", reload |-> FALSE,
      currentValue |-> [id \in SettingIds |-> NoValue],
      storedValue |-> [id \in SettingIds |-> NoValue],
      storage |-> storage ]

\* get value
SettingValue(c, id) ==
    IF c.currentValue[id] # NoValue THEN c.currentValue[id] ELSE defaultValue(id)

\* get isChanged: JSON.stringify answers undefined for undefined and distinct
\* texts for the distinct values of a select or a toggle
SettingIsChanged(c, id) == SettingValue(c, id) # c.storedValue[id]

\* Setting.load() of one setting
SettingLoad(c, id) ==
    IF c.storage.present
    THEN (IF c.storage.data[id] # NoValue
          THEN [c EXCEPT !.storedValue[id] = c.storage.data[id],
                         !.currentValue[id] = c.storage.data[id]]
          ELSE c)
    ELSE [c EXCEPT !.currentValue[id] = defaultValue(id),
                   !.storedValue[id] = defaultValue(id)]

\* Setting.save() of one setting
SettingSave(c, id) ==
    [c EXCEPT !.storage = [present |-> TRUE,
                           data |-> [c.storage.data EXCEPT ![id] = SettingValue(c, id)]],
              !.storedValue[id] = SettingValue(c, id)]

\* settings.forEach(...) over the two settings
ForEachSetting(Op(_, _), c) == Op(Op(c, "theme"), "results-auto-match")

\* onMount of the settings page: every field is loaded
SettingsLoad ==
    /\ call.op = "settings" /\ ~call.reload
    /\ call' = [ForEachSetting(SettingLoad, call) EXCEPT !.last = "load"]
    /\ UNCHANGED << cover, searchParams, mounted, loading, reported, isFetching,
                    allSeriesIds, allBookIds, sortOrder,
                    automaticCoverQualityEnabled, page, maxPage, incrementPages,
                    fetchedPages, allBooks, allSeries, selectedBooks,
                    lastToggledBook, providers, selectedProviders, allBookPages,
                    selectedBookPage, tasks >>

\* A control of the settings page, shown once the page is mounted and its
\* settings loaded, sets the value of a setting
SettingsChange(id, value) ==
    /\ call.op = "settings" /\ ~call.reload /\ call.last # "none"
    /\ value \in SettingValues(id)
    /\ call' = [call EXCEPT !.currentValue[id] = value, !.last = "change"]
    /\ UNCHANGED << cover, searchParams, mounted, loading, reported, isFetching,
                    allSeriesIds, allBookIds, sortOrder,
                    automaticCoverQualityEnabled, page, maxPage, incrementPages,
                    fetchedPages, allBooks, allSeries, selectedBooks,
                    lastToggledBook, providers, selectedProviders, allBookPages,
                    selectedBookPage, tasks >>

\* The Save button, enabled while some setting is changed: every field is
\* saved, and the page reloads when the theme was changed
SettingsSave ==
    /\ call.op = "settings" /\ ~call.reload /\ call.last # "none"
    /\ \E id \in SettingIds : SettingIsChanged(call, id)
    /\ call' = [ForEachSetting(SettingSave, call) EXCEPT
                    !.last = "save",
                    !.reload = SettingIsChanged(call, "theme")]
    /\ UNCHANGED << cover, searchParams, mounted, loading, reported, isFetching,
                    allSeriesIds, allBookIds, sortOrder,
                    automaticCoverQualityEnabled, page, maxPage, incrementPages,
                    fetchedPages, allBooks, allSeries, selectedBooks,
                    lastToggledBook, providers, selectedProviders, allBookPages,
                    selectedBookPage, tasks >>

\* window.location.reload(): the settings are constructed anew
SettingsReload ==
    /\ call.op = "settings" /\ call.reload
    /\ call' = Constructed(call.storage)
    /\ UNCHANGED << cover, searchParams, mounted, loading, reported, isFetching,
                    allSeriesIds, allBookIds, sortOrder,
                    automaticCoverQualityEnabled, page, maxPage, incrementPages,
                    fetchedPages, allBooks, allSeries, selectedBooks,
                    lastToggledBook, providers, selectedProviders, allBookPages,
                    selectedBookPage, tasks >>

InitSettings ==
    /\ Detached
    /\ call \in {Constructed(storage) : storage \in Storages}
    /\ cover = NoCover

NextSettings ==
    \/ SettingsLoad
    \/ \E id \in SettingIds : \E value \in SettingValues(id) : SettingsChange(id, value)
    \/ SettingsSave
    \/ SettingsReload

SpecSettings == InitSettings /\ [][NextSettings]_vars

\* C39: immediately after load() no setting is changed (its value equals its
\* stored value), whatever the settings storage holds: nothing, a value for
\* the setting, or an object without the setting's id; and immediately after
\* save() no setting is changed.
C39_UnchangedAfterLoadAndSave ==
    (call.op = "settings" /\ call.last \in {"load", "save"}) =>
        \A id \in SettingIds : ~SettingIsChanged(call, id)

============================================================================
